---- MODULE Spec2Model ----
(***************************************************************************)
(* A model of the WAVM core types (Include/WAVM/IR/Types.h) and of the     *)
(* Windows platform layer (Lib/Platform/Windows.cpp).                      *)
(*                                                                         *)
(* The module holds several specifications over one set of variables.     *)
(* Each specification drives one subsystem and leaves the variables of    *)
(* the others at their initial values:                                    *)
(*   SpecTypes   the value-type lattice: isSubtype, join, meet            *)
(*   SpecTuples  the interned TypeTuple values                            *)
(*   SpecFunctions  the interned FunctionType values and their encodings  *)
(*   SpecSEH     catchSignals, catchPlatformExceptions and the dispatch   *)
(*               of structured exceptions on one thread                   *)
(*   SpecVM      allocateAlignedVirtualPages against the address space    *)
(*   SpecVMOps   the page operations: commit, protect, decommit, free      *)
(*   SpecLink    linking a module against the fuzzer's StubResolver        *)
(*   SpecReporting  handleFatalError, handleAssertionFailure and           *)
(*               captureCallStack                                          *)
(*   SpecHandler the process-wide signal handler                          *)
(*   SpecSEHReentrant  SpecSEH with faults inside the exception filters    *)
(*   SpecThreads threads, initThread and forkCurrentThread                 *)
(*   SpecTimer   Core::Timer                                               *)
(*   SpecGroups  the processor groups createThread assigns                 *)
(*   SpecLife    the lifetime of a created thread and joinThread           *)
(*   SpecEvent   Event::wait                                               *)
(*   SpecFiles   File* values and OS handles                               *)
(***************************************************************************)
EXTENDS Integers, Sequences, FiniteSets, TLC

VARIABLES
    \* ---- value-type lattice (Types.h) ----
    vtA, vtB, vtC,      \* the ValueType arguments of the calls
    vtMeet,             \* result of meet(vtA, vtB), or Unset
    vtJoin,             \* result of join(vtA, vtB), or Unset
    vtSubAB,            \* result of isSubtype(vtA, vtB), or Unset
    vtSubBC,            \* result of isSubtype(vtB, vtC), or Unset
    vtSubAC,            \* result of isSubtype(vtA, vtC), or Unset
    \* ---- interned types (Types.h) ----
    tupleImpls,         \* the unique TypeTuple::Impl records; the address of
                        \* a record is its index, 0 is nullptr
    tuples,             \* the TypeTuple values the program has constructed
    functionImpls,      \* the unique FunctionType::Impl records, by address
    functions,          \* the FunctionType values the program has constructed
    \* ---- structured exception handling on one thread (Windows.cpp) ----
    stack,              \* the thread's frames, oldest first
    exception,          \* the exception being dispatched, or NoException
    outcome,            \* how the catch* call that ended in the last step
                        \* ended, or NoOutcome
    process,            \* "running", or why the process was terminated
    freed,              \* exception data pointers passed to free()
    isThreadInitialized,    \* thread_local bool isThreadInitialized
    stackGuarantee,     \* bytes given to SetThreadStackGuarantee, 0 if none
    \* ---- virtual memory (Windows.cpp) ----
    alloc,              \* the running allocateAlignedVirtualPages call: its
                        \* arguments, locals, position and return value
    reservations,       \* the address ranges reserved in the process
    committed,          \* the committed pages: address and protection
    vmCall,             \* the last call of a page operation and how it ended
    \* ---- linking with the stub resolver (FuzzInstantiate.cpp) ----
    imports,            \* the imports of the module being linked, in order
    linkResult,         \* LinkResult as linkModule builds it
    \* ---- error reporting (Windows.cpp) ----
    stderr,             \* the lines written to stderr
    exitCode,           \* <<code>> once TerminateProcess has been called
    \* ---- the process-wide signal handler (Windows.cpp) ----
    handlerCalls,       \* per thread: its setSignalHandler call
    unhandledExceptionFilterRegistrar,  \* the function-local static's guard
    registeredFilters,  \* the calls of SetUnhandledExceptionFilter so far
    signalHandler,      \* static std::atomic<SignalHandler> signalHandler
    handlerLog,         \* the stores and returns so far, and the delivery
    \* ---- threads (Windows.cpp) ----
    threads,            \* per thread: how it came to run and its
                        \* thread_local isThreadInitialized
    threadsFatal,       \* <<>>, or the thread and message of Errors::fatal
    \* ---- Core::Timer (Core.h) ----
    now,                \* std::chrono::high_resolution_clock::now(), in ticks
    timer,              \* the Timer's startTime, endTime and isStopped
    timerLog,            \* the calls made on the Timer and what they returned
    \* ---- processor groups of new threads (Windows.cpp) ----
    processorGroupInfos,    \* static std::vector<ProcessorGroupInfo>: its size, <<>> before the first call
    nextProcessorGroup,    \* static std::atomic<U16> nextProcessorGroup
    numIncrements,    \* how many increments of the counter have taken effect
    creators,    \* per calling thread: where it is in createThread, and the group it took
    \* ---- the lifetime of one created thread (Windows.cpp) ----
    threadObject,    \* the Thread: live or freed, numRefs, handle, result
    createThreadArgs,    \* the CreateThreadArgs record: "none", "live" or "freed"
    threadOwner,    \* the thread that calls createThread, then joins or detaches
    createdThread,    \* the new thread: its position and what its entry does
    lifeErrors,    \* the reads and writes of freed memory so far
    \* ---- Platform::Event::wait (Windows.cpp) ----
    monotonicClock,    \* Platform::getMonotonicClock(), in microseconds
    eventWait,    \* the running Event::wait call: its argument, locals and result
    \* ---- files (Windows.cpp) ----
    osHandles,    \* the file handles the system has open for the process
    files,    \* the File* values openFile returned that are not closed yet
    fileCall    \* the last openFile or closeFile call and its result

typeVars == <<vtA, vtB, vtC, vtMeet, vtJoin, vtSubAB, vtSubBC, vtSubAC>>

internVars == <<tupleImpls, tuples, functionImpls, functions>>

sehVars == <<stack, exception, outcome, process, freed,
             isThreadInitialized, stackGuarantee>>

vmVars == <<alloc, reservations, committed, vmCall>>

linkVars == <<imports, linkResult>>

fatalVars == <<stderr, exitCode>>

handlerVars ==
    <<handlerCalls, unhandledExceptionFilterRegistrar, registeredFilters,
      signalHandler, handlerLog>>

threadVars == <<threads, threadsFatal>>

timerVars == <<now, timer, timerLog>>

groupVars == <<processorGroupInfos, nextProcessorGroup, numIncrements, creators>>

lifeVars == <<threadObject, createThreadArgs, threadOwner, createdThread, lifeErrors>>

eventVars == <<monotonicClock, eventWait>>

fileVars == <<osHandles, files, fileCall>>

vars ==
    <<typeVars, internVars, sehVars, vmVars, linkVars, fatalVars,
      handlerVars, threadVars, timerVars,
      groupVars,
      lifeVars,
      eventVars,
      fileVars>>

\* What the steps of one part of the program leave alone.
exceptTypes == <<internVars, sehVars, vmVars, linkVars, fatalVars,
    handlerVars, threadVars,
    timerVars,
    groupVars,
    lifeVars,
    eventVars,
    fileVars>>

exceptIntern == <<typeVars, sehVars, vmVars, linkVars, fatalVars,
    handlerVars, threadVars,
    timerVars,
    groupVars,
    lifeVars,
    eventVars,
    fileVars>>

exceptSEH == <<typeVars, internVars, vmVars, linkVars, fatalVars,
    handlerVars, threadVars,
    timerVars,
    groupVars,
    lifeVars,
    eventVars,
    fileVars>>

exceptVM == <<typeVars, internVars, sehVars, linkVars, fatalVars,
    handlerVars, threadVars,
    timerVars,
    groupVars,
    lifeVars,
    eventVars,
    fileVars>>

exceptLink == <<typeVars, internVars, sehVars, vmVars, fatalVars,
    handlerVars, threadVars,
    timerVars,
    groupVars,
    lifeVars,
    eventVars,
    fileVars>>

exceptHandler ==
    <<typeVars, internVars, sehVars, vmVars, linkVars, fatalVars, threadVars,
      timerVars,
    groupVars,
    lifeVars,
    eventVars,
    fileVars>>

exceptThreads ==
    <<typeVars, internVars, sehVars, vmVars, linkVars, fatalVars,
      handlerVars, timerVars,
    groupVars,
    lifeVars,
    eventVars,
    fileVars>>

exceptTimer ==
    <<typeVars, internVars, sehVars, vmVars, linkVars, fatalVars,
      handlerVars, threadVars,
    groupVars,
    lifeVars,
    eventVars,
    fileVars>>

exceptGroups ==
    <<typeVars,
      internVars,
      sehVars,
      vmVars,
      linkVars,
      fatalVars,
      handlerVars,
      threadVars,
      timerVars,
    lifeVars,
    eventVars,
    fileVars>>

exceptLife ==
    <<typeVars,
      internVars,
      sehVars,
      vmVars,
      linkVars,
      fatalVars,
      handlerVars,
      threadVars,
      timerVars,
      groupVars,
    eventVars,
    fileVars>>

exceptEvent ==
    <<typeVars,
      internVars,
      sehVars,
      vmVars,
      linkVars,
      fatalVars,
      handlerVars,
      threadVars,
      timerVars,
      groupVars,
      lifeVars,
    fileVars>>

exceptFiles ==
    <<typeVars,
      internVars,
      sehVars,
      vmVars,
      linkVars,
      fatalVars,
      handlerVars,
      threadVars,
      timerVars,
      groupVars,
      lifeVars,
      eventVars>>

exceptReporting == <<typeVars, internVars, vmVars, linkVars,
    handlerVars, threadVars,
    timerVars,
    groupVars,
    lifeVars,
    eventVars,
    fileVars>>

\* A result slot: <<>> before the call, <<r>> once the call has returned r.
Unset == <<>>

Returned(slot) == slot # <<>>

ValueOf(slot) == slot[1]

(***************************************************************************)
(* Types.h: enum class ValueType                                           *)
(***************************************************************************)
ValueType == {"none", "any", "i32", "i64", "f32", "f64", "v128",
              "anyref", "anyfunc", "nullref"}

isReferenceType(type) ==
    type = "anyref" \/ type = "anyfunc" \/ type = "nullref"

\* isSubtype with the anyfunc case dropped from the switch.
isSubtypeNoAnyfuncCase(subtype, supertype) ==
    IF subtype = supertype THEN TRUE
    ELSE CASE supertype = "any" -> TRUE
           [] supertype = "anyref" -> subtype = "anyfunc" \/ subtype = "nullref"
           [] OTHER -> FALSE

isSubtype(subtype, supertype) ==
    IF subtype = supertype THEN TRUE
    ELSE CASE supertype = "any" -> TRUE
           [] supertype = "anyref" -> subtype = "anyfunc" \/ subtype = "nullref"
           [] supertype = "anyfunc" -> subtype = "nullref"
           [] OTHER -> FALSE

\* join with the nullref test returning the wrong operand.
joinWrongOperand(a, b) ==
    IF a = b THEN a
    ELSE IF isReferenceType(a) /\ isReferenceType(b)
         THEN IF a = "nullref" THEN a
              ELSE IF b = "nullref" THEN a
              ELSE "anyref"
         ELSE "any"

\* join that gives up on reference types and answers the top type.
joinAlwaysAny(a, b) ==
    IF a = b THEN a ELSE "any"

\* Returns the type that includes all values that are an instance of a OR b.
join(a, b) ==
    IF a = b THEN a
    ELSE IF isReferenceType(a) /\ isReferenceType(b)
         THEN IF a = "nullref" THEN b
              ELSE IF b = "nullref" THEN a
              ELSE "anyref"
         ELSE "any"

\* Returns the type that includes all values that are an instance of both a
\* AND b.  The last branch carries wavmAssert(b == ValueType::anyref).
meet(a, b) ==
    IF a = b THEN a
    ELSE IF isReferenceType(a) /\ isReferenceType(b)
         THEN IF a = "nullref" \/ b = "nullref" THEN "nullref"
              ELSE IF a = "anyref" THEN b
              ELSE IF b = "anyref" THEN a ELSE "assertionFailure"
         ELSE "none"

(***************************************************************************)
(* The lattice operations as steps.                                        *)
(***************************************************************************)
TypesInit ==
    /\ vtA \in ValueType
    /\ vtB \in ValueType
    /\ vtC \in ValueType
    /\ vtMeet = Unset
    /\ vtJoin = Unset
    /\ vtSubAB = Unset
    /\ vtSubBC = Unset
    /\ vtSubAC = Unset

CallMeet ==
    /\ vtMeet = Unset
    /\ vtMeet' = <<meet(vtA, vtB)>>
    /\ UNCHANGED <<vtA, vtB, vtC, vtJoin, vtSubAB, vtSubBC, vtSubAC>>

CallJoin ==
    /\ vtJoin = Unset
    /\ vtJoin' = <<join(vtA, vtB)>>
    /\ UNCHANGED <<vtA, vtB, vtC, vtMeet, vtSubAB, vtSubBC, vtSubAC>>

CallIsSubtypeAB ==
    /\ vtSubAB = Unset
    /\ vtSubAB' = <<isSubtype(vtA, vtB)>>
    /\ UNCHANGED <<vtA, vtB, vtC, vtMeet, vtJoin, vtSubBC, vtSubAC>>

CallIsSubtypeBC ==
    /\ vtSubBC = Unset
    /\ vtSubBC' = <<isSubtype(vtB, vtC)>>
    /\ UNCHANGED <<vtA, vtB, vtC, vtMeet, vtJoin, vtSubAB, vtSubAC>>

CallIsSubtypeAC ==
    /\ vtSubAC = Unset
    /\ vtSubAC' = <<isSubtype(vtA, vtC)>>
    /\ UNCHANGED <<vtA, vtB, vtC, vtMeet, vtJoin, vtSubAB, vtSubBC>>

TypesNext ==
    \/ CallMeet /\ UNCHANGED exceptTypes
    \/ CallJoin /\ UNCHANGED exceptTypes
    \/ CallIsSubtypeAB /\ UNCHANGED exceptTypes
    \/ CallIsSubtypeBC /\ UNCHANGED exceptTypes
    \/ CallIsSubtypeAC /\ UNCHANGED exceptTypes

\* No lattice call is in progress: the state of typeVars in the other
\* specifications.
TypesIdle ==
    /\ vtA = "none"
    /\ vtB = "none"
    /\ vtC = "none"
    /\ vtMeet = Unset
    /\ vtJoin = Unset
    /\ vtSubAB = Unset
    /\ vtSubBC = Unset
    /\ vtSubAC = Unset

(***************************************************************************)
(* Types.h: struct TypeTuple.  A TypeTuple holds a pointer to an Impl      *)
(* {hash, numElems, elems[]}; the pointer comes from getUniqueImpl, which  *)
(* Types.h declares and does not define.  The hash is a function of the    *)
(* elements and no operation below reads it, so the records leave it out.  *)
(***************************************************************************)
\* Bounds of the model: the longest tuple, the number of TypeTuple and of
\* FunctionType values the program constructs, and the element types used.
MaxTupleLen == 2
MaxTuples == 3
MaxFunctions == 3
TupleElemTypes == {"i32", "anyref"}

ElemSeqs == UNION {[1..n -> TupleElemTypes] : n \in 0..MaxTupleLen}

nullptr == 0

\* The address of the Impl whose elements are inElems, or nullptr.
findTupleImpl(impls, inElems) ==
    IF \E p \in DOMAIN impls :
           impls[p].numElems = Len(inElems) /\ impls[p].elems = inElems
    THEN CHOOSE p \in DOMAIN impls :
           impls[p].numElems = Len(inElems) /\ impls[p].elems = inElems
    ELSE nullptr

\* TypeTuple::getUniqueImpl(numElems, inElems): the set of records after the
\* call; a miss allocates a record at a fresh address.
tupleImplsAfter(impls, inElems) ==
    IF findTupleImpl(impls, inElems) # nullptr THEN impls
    ELSE Append(impls, [numElems |-> Len(inElems), elems |-> inElems])

\* TypeTuple::getUniqueImpl(numElems, inElems): the pointer returned.
getUniqueTupleImpl(impls, inElems) ==
    findTupleImpl(tupleImplsAfter(impls, inElems), inElems)

\* TypeTuple::size(), operator[] and data()/begin()..end().
tupleSize(t) == tupleImpls[t.impl].numElems

tupleElem(t, index) == tupleImpls[t.impl].elems[index]

tupleData(t) == [index \in 1..tupleSize(t) |-> tupleElem(t, index)]

\* operator== comparing the element counts instead of the pointers.
TypeTupleEqBySize(left, right) == tupleSize(left) = tupleSize(right)

\* friend bool operator==(const TypeTuple&, const TypeTuple&)
TypeTupleEq(left, right) == left.impl = right.impl

\* TypeTuple(): impl(getUniqueImpl(0, nullptr))
ConstructEmptyTuple ==
    /\ Len(tuples) < MaxTuples
    /\ tupleImpls' = tupleImplsAfter(tupleImpls, <<>>)
    /\ tuples' = Append(tuples,
           [type |-> [impl |-> getUniqueTupleImpl(tupleImpls, <<>>)],
            from |-> 0])
    /\ UNCHANGED <<functionImpls, functions>>

\* TypeTuple(ValueType), TypeTuple(initializer_list), TypeTuple(vector),
\* TypeTuple(const ValueType*, Uptr): intern the given elements.
ConstructTuple(inElems) ==
    /\ Len(tuples) < MaxTuples
    /\ Len(inElems) > 0
    /\ tupleImpls' = tupleImplsAfter(tupleImpls, inElems)
    /\ tuples' = Append(tuples,
           [type |-> [impl |-> getUniqueTupleImpl(tupleImpls, inElems)],
            from |-> 0])
    /\ UNCHANGED <<functionImpls, functions>>

\* TypeTuple(t.data(), t.size()) for an existing tuple t = tuples[i].
ConstructTupleFromTuple(i) ==
    /\ Len(tuples) < MaxTuples
    /\ tupleImpls' = tupleImplsAfter(tupleImpls, tupleData(tuples[i].type))
    /\ tuples' = Append(tuples,
           [type |-> [impl |-> getUniqueTupleImpl(tupleImpls,
                                                  tupleData(tuples[i].type))],
            from |-> i])
    /\ UNCHANGED <<functionImpls, functions>>

(***************************************************************************)
(* Types.h: struct FunctionType.  Impl is {hash, results, params};         *)
(* getUniqueImpl(results, params) is declared and not defined in Types.h.  *)
(***************************************************************************)
findFunctionImpl(impls, results, params) ==
    IF \E p \in DOMAIN impls :
           TypeTupleEq(impls[p].results, results)
               /\ TypeTupleEq(impls[p].params, params)
    THEN CHOOSE p \in DOMAIN impls :
           TypeTupleEq(impls[p].results, results)
               /\ TypeTupleEq(impls[p].params, params)
    ELSE nullptr

functionImplsAfter(impls, results, params) ==
    IF findFunctionImpl(impls, results, params) # nullptr THEN impls
    ELSE Append(impls, [results |-> results, params |-> params])

getUniqueFunctionImpl(impls, results, params) ==
    findFunctionImpl(functionImplsAfter(impls, results, params),
                     results, params)

\* FunctionType::results() and params()
results(f) == functionImpls[f.impl].results

params(f) == functionImpls[f.impl].params

\* friend bool operator==(const FunctionType&, const FunctionType&)
FunctionTypeEq(left, right) == left.impl = right.impl

\* getEncoding() narrowing the pointer to one bit.
getEncodingNarrowed(f) == [impl |-> f.impl % 2]

\* Encoding getEncoding() const: the pointer as a Uptr.
getEncoding(f) == [impl |-> f.impl]

\* FunctionType(Encoding encoding): the Uptr as a pointer.
FunctionTypeFromEncoding(encoding) == [impl |-> encoding.impl]

\* FunctionType(TypeTuple inResults, TypeTuple inParams)
ConstructFunctionType(r, p) ==
    /\ Len(functions) < MaxFunctions
    /\ functionImpls' =
           functionImplsAfter(functionImpls, tuples[r].type, tuples[p].type)
    /\ functions' = Append(functions,
           [type |-> [impl |-> getUniqueFunctionImpl(functionImpls,
                                   tuples[r].type, tuples[p].type)],
            encoding |-> <<>>,
            decoded |-> <<>>])
    /\ UNCHANGED <<tupleImpls, tuples>>

\* functions[i].getEncoding()
CallGetEncoding(i) ==
    /\ functions[i].encoding = <<>>
    /\ functions' = [functions EXCEPT
           ![i].encoding = <<getEncoding(functions[i].type)>>]
    /\ UNCHANGED <<tupleImpls, tuples, functionImpls>>

\* FunctionType(encoding) on the encoding obtained from functions[i]
DecodeFunctionType(i) ==
    /\ functions[i].encoding # <<>>
    /\ functions[i].decoded = <<>>
    /\ functions' = [functions EXCEPT
           ![i].decoded =
               <<FunctionTypeFromEncoding(functions[i].encoding[1])>>]
    /\ UNCHANGED <<tupleImpls, tuples, functionImpls>>

InternInit ==
    /\ tupleImpls = <<>>
    /\ tuples = <<>>
    /\ functionImpls = <<>>
    /\ functions = <<>>

TuplesNext ==
    \/ ConstructEmptyTuple /\ UNCHANGED exceptIntern
    \/ \E inElems \in ElemSeqs : ConstructTuple(inElems) /\ UNCHANGED exceptIntern
    \/ \E i \in DOMAIN tuples :
           ConstructTupleFromTuple(i) /\ UNCHANGED exceptIntern

\* The tuples the function types are built from: the state after
\* TypeTuple(), TypeTuple(i32) and TypeTuple({i32, anyref}).
SignatureTuples == <<<<>>, <<"i32">>, <<"i32", "anyref">>>>

SignatureTupleImpls ==
    tupleImplsAfter(
        tupleImplsAfter(
            tupleImplsAfter(<<>>, SignatureTuples[1]),
            SignatureTuples[2]),
        SignatureTuples[3])

FunctionsInit ==
    /\ tupleImpls = SignatureTupleImpls
    /\ tuples = [i \in 1..Len(SignatureTuples) |->
                    [type |-> [impl |-> findTupleImpl(SignatureTupleImpls,
                                                     SignatureTuples[i])],
                     from |-> 0]]
    /\ functionImpls = <<>>
    /\ functions = <<>>

FunctionsNext ==
    \/ \E r \in DOMAIN tuples, p \in DOMAIN tuples :
           ConstructFunctionType(r, p) /\ UNCHANGED exceptIntern
    \/ \E i \in DOMAIN functions : CallGetEncoding(i) /\ UNCHANGED exceptIntern
    \/ \E i \in DOMAIN functions : DecodeFunctionType(i) /\ UNCHANGED exceptIntern

(***************************************************************************)
(* Windows.cpp: structured exception handling.                             *)
(*                                                                         *)
(* The thread's stack is a sequence of frames, oldest first.  A frame is   *)
(* plain code, or a call of catchSignals or catchPlatformExceptions whose  *)
(* thunk is running: the frames above it, and the frame itself while it is *)
(* on top, are the thunk.  Every frame has the instruction pointer the     *)
(* unwinder finds for it.  "filter" is <<>> until the frame's __except     *)
(* filter has been evaluated, and then holds what the filter did.          *)
(***************************************************************************)
\* Bounds of the model.
MaxDepth == 3
InstructionPointers == {1, 2}
DataPointers == {0, 1}
FaultAddresses == {0, 2}

HardwareCodes ==
    {"EXCEPTION_ACCESS_VIOLATION", "EXCEPTION_STACK_OVERFLOW",
     "STATUS_INTEGER_DIVIDE_BY_ZERO", "STATUS_INTEGER_OVERFLOW",
     "EXCEPTION_ILLEGAL_INSTRUCTION"}

NoException == [code |-> "none"]

NoOutcome == [fn |-> "none"]

Frame(kind, ip) == [kind |-> kind, ip |-> ip, filter |-> <<>>]

IsGuard(frame) == frame.kind # "code"

\* The innermost frame at or below index k that has a __try, or 0.
RECURSIVE NearestGuard(_, _)
NearestGuard(frames, k) ==
    IF k = 0 THEN 0
    ELSE IF IsGuard(frames[k]) THEN k
    ELSE NearestGuard(frames, k - 1)

\* unwindStack pushing each frame at the front of the call stack.
RECURSIVE unwindStackPushFront(_, _, _, _)
unwindStackPushFront(ips, frame, numOmittedFramesFromTop, callStack) ==
    IF frame = 0 THEN callStack
    ELSE unwindStackPushFront(ips, frame - 1,
             IF numOmittedFramesFromTop # 0
             THEN numOmittedFramesFromTop - 1 ELSE 0,
             IF numOmittedFramesFromTop # 0
             THEN callStack ELSE <<[ip |-> ips[frame]]>> \o callStack)

\* unwindStack(context, numOmittedFramesFromTop): the loop.  The context is
\* the frame the walk has reached (Rip is ips[frame]; below the oldest frame
\* Rip is 0 and the loop ends).  Both ways of stepping, reading the return
\* address at Rsp and RtlVirtualUnwind, lead to the caller's frame.
RECURSIVE unwindStackLoop(_, _, _, _)
unwindStackLoop(ips, frame, numOmittedFramesFromTop, callStack) ==
    IF frame = 0 THEN callStack
    ELSE unwindStackLoop(ips, frame - 1,
             IF numOmittedFramesFromTop # 0
             THEN numOmittedFramesFromTop - 1 ELSE 0,
             IF numOmittedFramesFromTop # 0
             THEN callStack ELSE Append(callStack, [ip |-> ips[frame]]))

\* unwindStack adding each frame it reaches at the front of the call stack.
unwindStackOldestFirst(context, numOmittedFramesFromTop) ==
    unwindStackPushFront(context, Len(context), numOmittedFramesFromTop, <<>>)

\* static CallStack unwindStack(const CONTEXT&, Uptr numOmittedFramesFromTop)
unwindStack(context, numOmittedFramesFromTop) ==
    unwindStackLoop(context, Len(context), numOmittedFramesFromTop, <<>>)

\* translateSEHToSignal reading ExceptionInformation[0] for the address.
translateSEHToSignalWrongIndex(exceptionRecord) ==
    CASE exceptionRecord.code = "EXCEPTION_ACCESS_VIOLATION" ->
             [translated |-> TRUE,
              signal |-> [type |-> "accessViolation",
                          address |-> exceptionRecord.information[1]]]
      [] exceptionRecord.code = "EXCEPTION_STACK_OVERFLOW" ->
             [translated |-> TRUE, signal |-> [type |-> "stackOverflow"]]
      [] exceptionRecord.code = "STATUS_INTEGER_DIVIDE_BY_ZERO" ->
             [translated |-> TRUE,
              signal |-> [type |-> "intDivideByZeroOrOverflow"]]
      [] exceptionRecord.code = "STATUS_INTEGER_OVERFLOW" ->
             [translated |-> TRUE,
              signal |-> [type |-> "intDivideByZeroOrOverflow"]]
      [] OTHER -> [translated |-> FALSE, signal |-> [type |-> "invalid"]]

\* static bool translateSEHToSignal(EXCEPTION_POINTERS*, Signal& outSignal).
\* information is ExceptionInformation; C++ index i is index i + 1 here.
translateSEHToSignal(exceptionRecord) ==
    CASE exceptionRecord.code = "EXCEPTION_ACCESS_VIOLATION" ->
             [translated |-> TRUE,
              signal |-> [type |-> "accessViolation",
                          address |-> exceptionRecord.information[2]]]
      [] exceptionRecord.code = "EXCEPTION_STACK_OVERFLOW" ->
             [translated |-> TRUE, signal |-> [type |-> "stackOverflow"]]
      [] exceptionRecord.code = "STATUS_INTEGER_DIVIDE_BY_ZERO" ->
             [translated |-> TRUE,
              signal |-> [type |-> "intDivideByZeroOrOverflow"]]
      [] exceptionRecord.code = "STATUS_INTEGER_OVERFLOW" ->
             [translated |-> TRUE,
              signal |-> [type |-> "intDivideByZeroOrOverflow"]]
      [] OTHER -> [translated |-> FALSE, signal |-> [type |-> "invalid"]]

\* sehSignalFilterFunctionNonReentrant(exceptionPointers, filter), with
\* filterVerdict what the caller's filter returns if it is called.
sehSignalFilterFunction(exceptionPointers, filterVerdict) ==
    LET t == translateSEHToSignal(exceptionPointers)
    IN  IF ~t.translated
        THEN [disposition |-> "EXCEPTION_CONTINUE_SEARCH",
              filterCalls |-> 0]
        ELSE [disposition |-> IF filterVerdict
                              THEN "EXCEPTION_EXECUTE_HANDLER"
                              ELSE "EXCEPTION_CONTINUE_SEARCH",
              filterCalls |-> 1,
              signal |-> t.signal,
              callStack |-> unwindStack(exceptionPointers.context, 0),
              verdict |-> filterVerdict]

\* sehPlatformExceptionFilterFunction taking an exception of any code.
sehPlatformExceptionFilterFunctionAnyCode(exceptionPointers) ==
    [disposition |-> "EXCEPTION_EXECUTE_HANDLER",
     outCallStack |-> <<unwindStack(exceptionPointers.context, 0)>>,
     outExceptionData |-> nullptr]

\* sehPlatformExceptionFilterFunction leaving outExceptionData untouched.
sehPlatformExceptionFilterFunctionNoData(exceptionPointers) ==
    IF exceptionPointers.code # "SEH_WAVM_EXCEPTION"
    THEN [disposition |-> "EXCEPTION_CONTINUE_SEARCH",
          outCallStack |-> <<>>, outExceptionData |-> nullptr]
    ELSE [disposition |-> "EXCEPTION_EXECUTE_HANDLER",
          outCallStack |-> <<unwindStack(exceptionPointers.context, 0)>>,
          outExceptionData |-> nullptr]

\* sehPlatformExceptionFilterFunction(exceptionPointers, outCallStack,
\* outExceptionData).  outCallStack is <<>> for the null pointer the caller
\* initialised it to, <<c>> for a pointer to the new CallStack c.
sehPlatformExceptionFilterFunction(exceptionPointers) ==
    IF exceptionPointers.code # "SEH_WAVM_EXCEPTION"
    THEN [disposition |-> "EXCEPTION_CONTINUE_SEARCH",
          outCallStack |-> <<>>, outExceptionData |-> nullptr]
    ELSE [disposition |-> "EXCEPTION_EXECUTE_HANDLER",
          outCallStack |-> <<unwindStack(exceptionPointers.context, 0)>>,
          outExceptionData |-> exceptionPointers.information[1]]

Running == process = "running" /\ exception = NoException

Dispatching(kind) ==
    /\ process = "running"
    /\ exception # NoException
    /\ exception.search # 0
    /\ stack[exception.search].kind = kind

\* The instruction pointers of the frames, oldest first: what the context
\* record of an exception raised now lets the unwinder walk.
ContextOf(frames) == [k \in 1..Len(frames) |-> frames[k].ip]

\* initThread asking for the guarantee on every call.
initThreadEveryCall(initialized, guarantee, calls, granted) ==
    [isThreadInitialized |-> TRUE,
     stackGuarantee |-> IF granted THEN 32768 ELSE guarantee,
     guaranteeCalls |-> calls + 1]

\* static void initThread(), on a thread whose isThreadInitialized and
\* stack guarantee are as given: the flag is set, and
\* SetThreadStackGuarantee(32768) is called, whose result (granted or
\* refused by the system) is not looked at.
initThread(initialized, guarantee, calls, granted) ==
    IF ~initialized
    THEN [isThreadInitialized |-> TRUE,
          stackGuarantee |-> IF granted THEN 32768 ELSE guarantee,
          guaranteeCalls |-> calls + 1]
    ELSE [isThreadInitialized |-> initialized,
          stackGuarantee |-> guarantee,
          guaranteeCalls |-> calls]

\* Plain code calls a function.
Call(ip) ==
    /\ Running
    /\ Len(stack) < MaxDepth
    /\ stack' = Append(stack, Frame("code", ip))
    /\ outcome' = NoOutcome
    /\ UNCHANGED <<exception, process, freed, isThreadInitialized,
                   stackGuarantee>>

\* A plain function returns to its caller.
Return ==
    /\ Running
    /\ Len(stack) > 1
    /\ stack[Len(stack)].kind = "code"
    /\ stack' = SubSeq(stack, 1, Len(stack) - 1)
    /\ outcome' = NoOutcome
    /\ UNCHANGED <<exception, process, freed, isThreadInitialized,
                   stackGuarantee>>

\* Platform::catchSignals(thunk, filter): initThread(), then the thunk
\* starts inside the __try.
CatchSignalsEnter(ip, granted) ==
    /\ Running
    /\ Len(stack) < MaxDepth
    /\ isThreadInitialized' =
           initThread(isThreadInitialized, stackGuarantee, 0,
                      granted).isThreadInitialized
    /\ stackGuarantee' =
           initThread(isThreadInitialized, stackGuarantee, 0,
                      granted).stackGuarantee
    /\ stack' = Append(stack, Frame("catchSignals", ip))
    /\ outcome' = NoOutcome
    /\ UNCHANGED <<exception, process, freed>>

\* Platform::catchPlatformExceptions(thunk, handler): callStack and
\* exceptionData start null and the thunk starts inside the __try.
CatchPlatformExceptionsEnter(ip) ==
    /\ Running
    /\ Len(stack) < MaxDepth
    /\ stack' = Append(stack, Frame("catchPlatformExceptions", ip))
    /\ outcome' = NoOutcome
    /\ UNCHANGED <<exception, process, freed, isThreadInitialized,
                   stackGuarantee>>

\* The thunk of the innermost catchSignals or catchPlatformExceptions
\* returns: "thunk(); return false;".
ThunkReturns ==
    /\ Running
    /\ IsGuard(stack[Len(stack)])
    /\ outcome' = [fn |-> stack[Len(stack)].kind,
                   how |-> "returned",
                   by |-> "thunk",
                   result |-> FALSE,
                   filterCalls |-> 0,
                   handlerCalls |-> 0]
    /\ stack' = SubSeq(stack, 1, Len(stack) - 1)
    /\ UNCHANGED <<exception, process, freed, isThreadInitialized,
                   stackGuarantee>>

\* The running code faults: the processor raises an exception at the
\* youngest frame, and the search for a handler starts there.
Fault(code, information) ==
    /\ Running
    /\ exception' = [code |-> code,
                     information |-> information,
                     context |-> ContextOf(stack),
                     search |-> NearestGuard(stack, Len(stack))]
    /\ outcome' = NoOutcome
    /\ UNCHANGED <<stack, process, freed, isThreadInitialized,
                   stackGuarantee>>

\* Platform::raisePlatformException(data):
\* RaiseException(SEH_WAVM_EXCEPTION, 0, 1, {data}).
RaisePlatformException(data) ==
    /\ Running
    /\ data \notin freed
    /\ exception' = [code |-> "SEH_WAVM_EXCEPTION",
                     information |-> <<data>>,
                     context |-> ContextOf(stack),
                     search |-> NearestGuard(stack, Len(stack))]
    /\ outcome' = NoOutcome
    /\ UNCHANGED <<stack, process, freed, isThreadInitialized,
                   stackGuarantee>>

\* The __except of catchSignals, for the frame the search has reached:
\* the filter expression, and if it says EXCEPTION_EXECUTE_HANDLER the
\* unwind to the frame and the handler block
\* "errorUnless(_resetstkoflw()); return true;".
CatchSignalsExcept(filterVerdict, resetstkoflw) ==
    /\ Dispatching("catchSignals")
    /\ LET k == exception.search
           f == sehSignalFilterFunction(exception, filterVerdict)
       IN  CASE f.disposition = "EXCEPTION_EXECUTE_HANDLER" ->
                   /\ outcome' = [f EXCEPT !.disposition = "handled"]
                                     @@ [fn |-> "catchSignals",
                                         how |-> IF resetstkoflw
                                                 THEN "returned" ELSE "fatal",
                                         by |-> "except",
                                         result |-> resetstkoflw,
                                         resetstkoflw |-> resetstkoflw,
                                         exception |-> exception]
                   /\ stack' = IF resetstkoflw
                               THEN SubSeq(stack, 1, k - 1)
                               ELSE SubSeq(stack, 1, k)
                   /\ process' = IF resetstkoflw THEN "running"
                                 ELSE "fatal: errorUnless(_resetstkoflw())"
                   /\ exception' = NoException
             [] f.disposition = "EXCEPTION_CONTINUE_SEARCH" ->
                   /\ stack' = [stack EXCEPT ![k].filter = <<f>>]
                   /\ exception' = [exception EXCEPT
                          !.search = NearestGuard(stack, k - 1)]
                   /\ UNCHANGED <<outcome, process>>
             [] OTHER ->
                   \* EXCEPTION_CONTINUE_EXECUTION: the faulting code resumes
                   /\ exception' = NoException
                   /\ outcome' = [fn |-> "resumed"]
                   /\ UNCHANGED <<stack, process>>
    /\ UNCHANGED <<freed, isThreadInitialized, stackGuarantee>>

\* The __except of catchPlatformExceptions, for the frame the search has
\* reached: the filter expression, and if it says EXCEPTION_EXECUTE_HANDLER
\* the unwind to the frame and the handler block "handler(exceptionData,
\* *callStack); delete callStack; if(exceptionData) free(exceptionData);
\* return true;".
CatchPlatformExceptionsExcept ==
    /\ Dispatching("catchPlatformExceptions")
    /\ LET k == exception.search
           f == sehPlatformExceptionFilterFunction(exception)
       IN  CASE f.disposition = "EXCEPTION_EXECUTE_HANDLER" ->
                   /\ outcome' = [fn |-> "catchPlatformExceptions",
                                  how |-> "returned",
                                  by |-> "except",
                                  result |-> TRUE,
                                  filterCalls |-> 1,
                                  handlerCalls |-> 1,
                                  handlerData |-> f.outExceptionData,
                                  handlerCallStack |-> f.outCallStack[1],
                                  exception |-> exception]
                   /\ freed' = IF f.outExceptionData # nullptr
                               THEN freed \cup {f.outExceptionData}
                               ELSE freed
                   /\ stack' = SubSeq(stack, 1, k - 1)
                   /\ exception' = NoException
                   /\ UNCHANGED process
             [] f.disposition = "EXCEPTION_CONTINUE_SEARCH" ->
                   /\ stack' = [stack EXCEPT ![k].filter = <<f>>]
                   /\ exception' = [exception EXCEPT
                          !.search = NearestGuard(stack, k - 1)]
                   /\ UNCHANGED <<outcome, process, freed>>
             [] OTHER ->
                   \* EXCEPTION_CONTINUE_EXECUTION: the raising code resumes
                   /\ exception' = NoException
                   /\ outcome' = [fn |-> "resumed"]
                   /\ UNCHANGED <<stack, process, freed>>
    /\ UNCHANGED <<isThreadInitialized, stackGuarantee>>

\* No frame of the thread handles the exception: the system ends the
\* process.
Unhandled ==
    /\ process = "running"
    /\ exception # NoException
    /\ exception.search = 0
    /\ process' = "terminated: unhandled exception"
    /\ UNCHANGED <<stack, exception, outcome, freed, isThreadInitialized,
                   stackGuarantee>>

SEHIdle ==
    /\ stack = <<>>
    /\ exception = NoException
    /\ outcome = NoOutcome
    /\ process = "running"
    /\ freed = {}
    /\ isThreadInitialized = FALSE
    /\ stackGuarantee = 0

\* The thread has entered its first function.
SEHInit ==
    /\ stack \in {<<Frame("code", ip)>> : ip \in InstructionPointers}
    /\ exception = NoException
    /\ outcome = NoOutcome
    /\ process = "running"
    /\ freed = {}
    /\ isThreadInitialized = FALSE
    /\ stackGuarantee = 0

SEHNext ==
    \/ \E ip \in InstructionPointers :
           Call(ip) /\ UNCHANGED exceptSEH
    \/ Return /\ UNCHANGED exceptSEH
    \/ \E ip \in InstructionPointers, granted \in BOOLEAN :
           CatchSignalsEnter(ip, granted) /\ UNCHANGED exceptSEH
    \/ \E ip \in InstructionPointers :
           CatchPlatformExceptionsEnter(ip)
               /\ UNCHANGED exceptSEH
    \/ ThunkReturns /\ UNCHANGED exceptSEH
    \/ \E code \in HardwareCodes, address \in FaultAddresses :
           Fault(code, <<1, address>>) /\ UNCHANGED exceptSEH
    \/ \E data \in DataPointers :
           RaisePlatformException(data) /\ UNCHANGED exceptSEH
    \/ \E filterVerdict \in BOOLEAN, resetstkoflw \in BOOLEAN :
           CatchSignalsExcept(filterVerdict, resetstkoflw)
               /\ UNCHANGED exceptSEH
    \/ CatchPlatformExceptionsExcept /\ UNCHANGED exceptSEH
    \/ Unhandled /\ UNCHANGED exceptSEH

(***************************************************************************)
(* Windows.cpp: a second fault raised while a filter is running.  The      *)
(* filter runs in frames above those of the first fault, and the search    *)
(* for a handler of the second fault starts from them.                     *)
(***************************************************************************)
FilterStages == {"translateSEHToSignal", "unwindStack", "filter"}

\* The frames of the signal filter if it called the body without a __try.
sehSignalFilterFramesUnguarded(stage) == <<Frame("code", 1)>>

\* The frames of sehSignalFilterFunction while its body runs: its own, which
\* holds the __try, and that of sehSignalFilterFunctionNonReentrant or of
\* what it calls.
sehSignalFilterFrames(stage) ==
    <<Frame("sehSignalFilterFunction", 1), Frame("code", 1)>>

\* The frames of unhandledExceptionFilter while its body runs.
unhandledExceptionFilterFrames(stage) ==
    <<Frame("unhandledExceptionFilter", 1), Frame("code", 1)>>

\* What becomes of a second fault raised in the topmost of the frames: the
\* nearest __try is asked, and the __except of the two filter functions is
\* "__except(Errors::fatal("reentrant exception"), true)".
NestedFault(fn, stage, code, frames) ==
    LET g == NearestGuard(frames, Len(frames))
        takenBy == IF g = 0 THEN "none" ELSE frames[g].kind
    IN  /\ outcome' = [fn |-> fn, stage |-> stage, nested |-> code,
                       takenBy |-> takenBy, first |-> exception]
        /\ process' =
               IF takenBy \in {"sehSignalFilterFunction",
                               "unhandledExceptionFilter"}
               THEN "fatal: reentrant exception"
               ELSE IF takenBy = "none"
               THEN "terminated: unhandled exception"
               ELSE process
        /\ exception' =
               IF takenBy \in {"catchSignals", "catchPlatformExceptions"}
               THEN [code |-> code, information |-> <<0, 0>>,
                     context |-> ContextOf(frames), search |-> g]
               ELSE exception

\* A second fault while the filter of catchSignals is running: in
\* translateSEHToSignal, in unwindStack, or in the filter the caller gave.
FaultInSignalFilter(stage, code) ==
    /\ Dispatching("catchSignals")
    /\ stage # "translateSEHToSignal"
           => translateSEHToSignal(exception).translated
    /\ NestedFault("sehSignalFilterFunction", stage, code,
                   stack \o sehSignalFilterFrames(stage))
    /\ UNCHANGED <<stack, freed, isThreadInitialized, stackGuarantee>>

\* A second fault while the registered unhandled-exception filter is
\* running: in translateSEHToSignal, in unwindStack, or in the signal
\* handler.
FaultInUnhandledFilter(stage, code) ==
    /\ process = "running"
    /\ exception # NoException
    /\ exception.search = 0
    /\ stage = "unwindStack" =>
           \/ translateSEHToSignal(exception).translated
           \/ exception.code = "SEH_WAVM_EXCEPTION"
    /\ stage = "filter" =>
           \/ translateSEHToSignal(exception).translated
           \/ exception.code = "SEH_WAVM_EXCEPTION"
    /\ NestedFault("unhandledExceptionFilter", stage, code,
                   stack \o unhandledExceptionFilterFrames(stage))
    /\ UNCHANGED <<stack, freed, isThreadInitialized, stackGuarantee>>

SEHReentrantNext ==
    \/ SEHNext
    \/ \E stage \in FilterStages, code \in HardwareCodes :
           FaultInSignalFilter(stage, code) /\ UNCHANGED exceptSEH
    \/ \E stage \in FilterStages, code \in HardwareCodes :
           FaultInUnhandledFilter(stage, code) /\ UNCHANGED exceptSEH

(***************************************************************************)
(* Windows.cpp: virtual memory.                                            *)
(*                                                                         *)
(* Uptr is 64 bits wide and the page size comes from GetSystemInfo.  The   *)
(* model keeps the arithmetic of the code, modulo 2^UptrBits, on a smaller *)
(* machine: UptrBits-bit words, pages of 2^PageSizeLog2 bytes, an         *)
(* allocation granularity of two pages, and a user address space of half   *)
(* the words, whose first granule is never handed out (the null page).     *)
(***************************************************************************)
UptrBits == 6
PageSizeLog2 == 1
MaxOtherReservations == 1

Pow2(n) == 2 ^ n

UptrSize == Pow2(UptrBits)

\* Platform::getPageSizeLog2()
getPageSizeLog2 == PageSizeLog2

PageSize == Pow2(PageSizeLog2)

AllocationGranularity == 2 * PageSize

AddressSpaceEnd == Pow2(UptrBits - 1)

\* The arguments the calls are made with: a few sizes, and the two sizes
\* around the one whose byte count no longer fits a Uptr.
NumPagesArguments ==
    {0, 1, 2, Pow2(UptrBits - PageSizeLog2) - 3,
     Pow2(UptrBits - PageSizeLog2) - 1, Pow2(UptrBits - PageSizeLog2) + 1}

AlignmentLog2Arguments == 0..(PageSizeLog2 + 3)

RoundDown(x, unit) == x - (x % unit)

RoundUp(x, unit) == RoundDown(x + unit - 1, unit)

\* The addresses of a reservation: the range [base, base + size).
Overlaps(r, base, size) == r.base < base + size /\ base < r.base + r.size

IsFree(base, size) == \A r \in reservations : ~Overlaps(r, base, size)

\* VirtualAlloc(nullptr, size, MEM_RESERVE, ...): the bases the system may
\* answer.  It rounds the size up to whole pages, places the range at a
\* multiple of the allocation granularity, and refuses a size of 0.
ReservableBases(size) ==
    {base \in AllocationGranularity..(AddressSpaceEnd - 1) :
        /\ size > 0
        /\ base % AllocationGranularity = 0
        /\ base + RoundUp(size, PageSize) <= AddressSpaceEnd
        /\ IsFree(base, RoundUp(size, PageSize))}

\* VirtualAlloc(address, size, MEM_RESERVE, ...): the range reserved, which
\* starts at the address rounded down to the allocation granularity and
\* ends after the last page the request touches.
RangeAt(address, size) ==
    [base |-> RoundDown(address, AllocationGranularity),
     size |-> RoundUp(address + size, PageSize)
                  - RoundDown(address, AllocationGranularity)]

CanReserveAt(address, size) ==
    /\ size > 0
    /\ RoundDown(address, AllocationGranularity) >= AllocationGranularity
    /\ address + size <= AddressSpaceEnd
    /\ IsFree(RangeAt(address, size).base, RangeAt(address, size).size)

Reservation(base, size, owner) ==
    [base |-> base, size |-> RoundUp(size, PageSize), owner |-> owner]

\* const Uptr numBytes = numPages << pageSizeLog2;
numBytesOf(numPages) == (numPages * Pow2(getPageSizeLog2)) % UptrSize

\* const Uptr alignmentBytes = 1ull << alignmentLog2;
alignmentBytesOf(alignmentLog2) == Pow2(alignmentLog2) % UptrSize

\* const Uptr alignedAddress
\*     = (address + alignmentBytes - 1) & ~(alignmentBytes - 1);
alignedAddressOf(address, alignmentBytes) ==
    RoundDown((address + alignmentBytes - 1) % UptrSize, alignmentBytes)

\* No page operation has been called.
NoCall == [fn |-> "none"]

\* static bool isPageAligned(U8* address)
isPageAligned(address) == address % Pow2(getPageSizeLog2) = 0

\* The locals of a call that has not started.
NewCall(numPages, alignmentLog2) ==
    [pc |-> "start",
     numPages |-> numPages,
     alignmentLog2 |-> alignmentLog2,
     numTries |-> 0,
     probeResult |-> nullptr,
     alignedAddress |-> 0,
     outUnalignedBaseAddress |-> nullptr,
     result |-> nullptr,
     path |-> "none"]

\* The else branch: outUnalignedBaseAddress = allocateVirtualPages(numPages),
\* which is VirtualAlloc(nullptr, numBytes, MEM_RESERVE, PAGE_NOACCESS).
AllocateUnaligned ==
    /\ UNCHANGED <<committed, vmCall>>
    /\ alloc.pc = "start"
    /\ ~(alloc.alignmentLog2 > getPageSizeLog2)
    /\ \/ \E base \in ReservableBases(numBytesOf(alloc.numPages)) :
              /\ reservations' = reservations \cup
                     {Reservation(base, numBytesOf(alloc.numPages), "self")}
              /\ alloc' = [alloc EXCEPT !.pc = "done",
                                        !.outUnalignedBaseAddress = base,
                                        !.result = base,
                                        !.path = "unaligned"]
       \/ /\ alloc' = [alloc EXCEPT !.pc = "done",
                                    !.outUnalignedBaseAddress = nullptr,
                                    !.result = nullptr,
                                    !.path = "unaligned"]
          /\ UNCHANGED reservations

\* One pass of the loop up to the test of numTries: the padded probe
\* reservation; "if(!probeResult) return nullptr"; the aligned address; and,
\* once numTries has reached 10, the return of the padded reservation.
Probe ==
    /\ UNCHANGED <<committed, vmCall>>
    /\ alloc.pc \in {"start", "loop"}
    /\ alloc.alignmentLog2 > getPageSizeLog2
    /\ LET numBytes == numBytesOf(alloc.numPages)
           alignmentBytes == alignmentBytesOf(alloc.alignmentLog2)
           probeBytes == (numBytes + alignmentBytes) % UptrSize
       IN  \/ \E probeResult \in ReservableBases(probeBytes) :
                  /\ reservations' = reservations \cup
                         {Reservation(probeResult, probeBytes, "self")}
                  /\ alloc' =
                       IF alloc.numTries < 10
                       THEN [alloc EXCEPT
                               !.pc = "free",
                               !.probeResult = probeResult,
                               !.alignedAddress =
                                   alignedAddressOf(probeResult,
                                                    alignmentBytes)]
                       ELSE [alloc EXCEPT
                               !.pc = "done",
                               !.probeResult = probeResult,
                               !.alignedAddress =
                                   alignedAddressOf(probeResult,
                                                    alignmentBytes),
                               !.outUnalignedBaseAddress = probeResult,
                               !.result =
                                   alignedAddressOf(probeResult,
                                                    alignmentBytes),
                               !.path = "padded"]
           \/ /\ alloc' = [alloc EXCEPT !.pc = "done",
                                        !.result = nullptr,
                                        !.path = "probe failed"]
              /\ UNCHANGED reservations

\* errorUnless(VirtualFree(probeResult, 0, MEM_RELEASE)): the whole probe
\* reservation is released; a base that is no reservation's is refused.
FreeProbe ==
    /\ UNCHANGED <<committed, vmCall>>
    /\ alloc.pc = "free"
    /\ IF \E r \in reservations : r.base = alloc.probeResult
       THEN /\ reservations' =
                   {r \in reservations : r.base # alloc.probeResult}
            /\ alloc' = [alloc EXCEPT !.pc = "rereserve"]
       ELSE /\ alloc' = [alloc EXCEPT !.pc = "fatal"]
            /\ UNCHANGED reservations

\* outUnalignedBaseAddress = VirtualAlloc(alignedAddress, numBytes,
\* MEM_RESERVE, PAGE_NOACCESS); return it if it is not null; ++numTries.
ReReserve ==
    /\ UNCHANGED <<committed, vmCall>>
    /\ alloc.pc = "rereserve"
    /\ LET numBytes == numBytesOf(alloc.numPages)
           range == RangeAt(alloc.alignedAddress, numBytes)
       IN  IF CanReserveAt(alloc.alignedAddress, numBytes)
           THEN /\ reservations' = reservations \cup
                       {Reservation(range.base, range.size, "self")}
                /\ alloc' = [alloc EXCEPT
                               !.pc = "done",
                               !.outUnalignedBaseAddress = range.base,
                               !.result = range.base,
                               !.path = "re-reserved"]
           ELSE /\ alloc' = [alloc EXCEPT
                               !.pc = "loop",
                               !.outUnalignedBaseAddress = nullptr,
                               !.numTries = alloc.numTries + 1]
                /\ UNCHANGED reservations

\* Another thread of the process reserves a granule that is free.
OtherThreadReserves(base) ==
    /\ UNCHANGED <<committed, vmCall>>
    /\ alloc.pc \notin {"done", "fatal"}
    /\ Cardinality({r \in reservations : r.owner = "other"})
           < MaxOtherReservations
    /\ base \in ReservableBases(AllocationGranularity)
    /\ reservations' = reservations \cup
           {Reservation(base, AllocationGranularity, "other")}
    /\ UNCHANGED alloc

\* Another thread releases what it reserved.
OtherThreadReleases(r) ==
    /\ UNCHANGED <<committed, vmCall>>
    /\ alloc.pc \notin {"done", "fatal"}
    /\ r.owner = "other"
    /\ reservations' = reservations \ {r}
    /\ UNCHANGED alloc

\* VirtualFree(base, 0, MEM_RELEASE) succeeds on the base of a reservation
\* and releases all of it; every other address, null included, is refused.
CanRelease(base) == \E r \in reservations : r.base = base

ReservationAt(base) == CHOOSE r \in reservations : r.base = base

PagesOf(base, size) ==
    {a \in 0..(AddressSpaceEnd - 1) :
         a % PageSize = 0 /\ base <= a /\ a < base + size}

\* The committed pages left when those of a range are given back.
Decommitted(base, size) ==
    {c \in committed : c.page \notin PagesOf(base, size)}

\* The committed pages after a range has been committed with a protection.
Committed(base, size, protection) ==
    Decommitted(base, size) \cup
        {[page |-> a, protection |-> protection] : a \in PagesOf(base, size)}

\* A release that leaves the reservations as they were.
ReleaseNothing(base) == reservations

ReleaseAt(base) == {r \in reservations : r.base # base}

\* Platform::freeAlignedVirtualPages(unalignedBaseAddress, numPages,
\* alignmentLog2)
FreeAlignedVirtualPages(unalignedBaseAddress, numPages) ==
    LET called == [fn |-> "freeAlignedVirtualPages",
                   base |-> unalignedBaseAddress,
                   numPages |-> numPages]
    IN  IF ~isPageAligned(unalignedBaseAddress)
        THEN /\ vmCall' = called @@ [refused |-> FALSE, outcome |-> "fatal",
                                      result |-> <<>>]
             /\ UNCHANGED <<reservations, committed>>
        ELSE IF CanRelease(unalignedBaseAddress)
        THEN /\ reservations' = ReleaseAt(unalignedBaseAddress)
             /\ committed' = Decommitted(unalignedBaseAddress,
                               ReservationAt(unalignedBaseAddress).size)
             /\ vmCall' = called @@ [refused |-> FALSE,
                                      outcome |-> "returned",
                                      result |-> <<>>]
        ELSE /\ vmCall' = called @@
                    [refused |-> TRUE,
                     outcome |-> IF unalignedBaseAddress # nullptr
                                 THEN "fatal" ELSE "returned",
                     result |-> <<>>]
             /\ UNCHANGED <<reservations, committed>>

MaxOwnReservations == 1

\* The arguments the page operations are called with: null, addresses
\* inside a page, bases of reservations and pages after them.
BaseArguments ==
    {nullptr, 1, AllocationGranularity, AllocationGranularity + 1,
     AllocationGranularity + PageSize, 2 * AllocationGranularity}

OpNumPagesArguments == {0, 1, 2}

MemoryAccess == {"none", "readWrite"}

\* static U32 memoryAccessAsWin32Flag(MemoryAccess access)
memoryAccessAsWin32Flag(access) ==
    CASE access = "none" -> "PAGE_NOACCESS"
      [] access = "readOnly" -> "PAGE_READONLY"
      [] access = "readWrite" -> "PAGE_READWRITE"
      [] access = "execute" -> "PAGE_EXECUTE_READ"
      [] access = "readWriteExecute" -> "PAGE_EXECUTE_READWRITE"
      [] OTHER -> "PAGE_NOACCESS"

\* A range of at least one byte that lies in one reservation.
InOneReservation(base, size) ==
    /\ size > 0
    /\ \E r \in reservations :
           r.base <= base /\ base + size <= r.base + r.size

\* VirtualProtect(base, size, ...) is accepted on committed pages.
CanProtect(base, size) ==
    /\ size > 0
    /\ base + size <= AddressSpaceEnd
    /\ PagesOf(base, size) \subseteq {c.page : c \in committed}

\* VirtualFree(base, size, MEM_DECOMMIT) is accepted on a range inside one
\* reservation, and with size 0 on the base of a reservation, all of which
\* it then decommits.
CanDecommit(base, size) ==
    \/ InOneReservation(base, size)
    \/ size = 0 /\ CanRelease(base)

Called(fn, base, numPages) == [fn |-> fn, base |-> base, numPages |-> numPages]

Ended(refused, how, result) ==
    [refused |-> refused, outcome |-> how, result |-> result]

\* Platform::allocateVirtualPages(numPages)
AllocateVirtualPages(numPages) ==
    LET called == Called("allocateVirtualPages", nullptr, numPages)
    IN  /\ UNCHANGED committed
        /\ \/ /\ Cardinality(reservations) < MaxOwnReservations
              /\ \E result \in ReservableBases(numBytesOf(numPages)) :
                     /\ reservations' = reservations \cup
                            {Reservation(result, numBytesOf(numPages),
                                         "self")}
                     /\ vmCall' = called @@
                            Ended(FALSE, "returned", <<result>>)
           \/ /\ UNCHANGED reservations
              /\ vmCall' = called @@ Ended(TRUE, "returned", <<nullptr>>)

\* return baseVirtualAddress == VirtualAlloc(baseVirtualAddress, ...)
committedAtBase(baseVirtualAddress, answer) == baseVirtualAddress = answer

\* Platform::commitVirtualPages(baseVirtualAddress, numPages, access).
\* With a null address VirtualAlloc(MEM_COMMIT) places a new committed
\* range where it chooses.
CommitVirtualPages(baseVirtualAddress, numPages, access) ==
    LET called == Called("commitVirtualPages", baseVirtualAddress, numPages)
        numBytes == numBytesOf(numPages)
        protection == memoryAccessAsWin32Flag(access)
    IN  IF ~isPageAligned(baseVirtualAddress)
        THEN /\ vmCall' = called @@ Ended(FALSE, "fatal", <<>>)
             /\ UNCHANGED <<reservations, committed>>
        ELSE
          \/ /\ baseVirtualAddress # nullptr
             /\ InOneReservation(baseVirtualAddress, numBytes)
             /\ committed' = Committed(baseVirtualAddress, numBytes,
                                       protection)
             /\ UNCHANGED reservations
             /\ vmCall' = called @@
                    Ended(FALSE, "returned",
                          <<committedAtBase(baseVirtualAddress,
                                            baseVirtualAddress)>>)
          \/ /\ baseVirtualAddress = nullptr
             /\ Cardinality(reservations) < MaxOwnReservations
             /\ \E answer \in ReservableBases(numBytes) :
                    /\ reservations' = reservations \cup
                           {Reservation(answer, numBytes, "self")}
                    /\ committed' = Committed(answer, numBytes, protection)
                    /\ vmCall' = called @@
                           Ended(FALSE, "returned",
                                 <<committedAtBase(baseVirtualAddress,
                                                   answer)>>)
          \/ /\ UNCHANGED <<reservations, committed>>
             /\ vmCall' = called @@
                    Ended(TRUE, "returned",
                          <<committedAtBase(baseVirtualAddress, nullptr)>>)

\* Platform::setVirtualPageAccess(baseVirtualAddress, numPages, access)
SetVirtualPageAccess(baseVirtualAddress, numPages, access) ==
    LET called == Called("setVirtualPageAccess", baseVirtualAddress, numPages)
        numBytes == numBytesOf(numPages)
    IN  /\ UNCHANGED reservations
        /\ IF ~isPageAligned(baseVirtualAddress)
           THEN /\ vmCall' = called @@ Ended(FALSE, "fatal", <<>>)
                /\ UNCHANGED committed
           ELSE IF CanProtect(baseVirtualAddress, numBytes)
           THEN /\ committed' =
                       Committed(baseVirtualAddress, numBytes,
                                 memoryAccessAsWin32Flag(access))
                /\ vmCall' = called @@ Ended(FALSE, "returned", <<TRUE>>)
           ELSE /\ UNCHANGED committed
                /\ vmCall' = called @@ Ended(TRUE, "returned", <<FALSE>>)

\* Whether a rejected VirtualFree ends the process:
\* if(baseVirtualAddress && !result) { Errors::fatal(...); }
rejectedFreeIsFatal(baseVirtualAddress) == baseVirtualAddress # nullptr

\* Platform::decommitVirtualPages(baseVirtualAddress, numPages)
DecommitVirtualPages(baseVirtualAddress, numPages) ==
    LET called == Called("decommitVirtualPages", baseVirtualAddress, numPages)
        numBytes == numBytesOf(numPages)
    IN  /\ UNCHANGED reservations
        /\ IF ~isPageAligned(baseVirtualAddress)
           THEN /\ vmCall' = called @@ Ended(FALSE, "fatal", <<>>)
                /\ UNCHANGED committed
           ELSE IF CanDecommit(baseVirtualAddress, numBytes)
           THEN /\ committed' =
                       Decommitted(baseVirtualAddress,
                           IF numBytes = 0
                           THEN ReservationAt(baseVirtualAddress).size
                           ELSE numBytes)
                /\ vmCall' = called @@ Ended(FALSE, "returned", <<>>)
           ELSE /\ UNCHANGED committed
                /\ vmCall' = called @@
                       Ended(TRUE,
                             IF rejectedFreeIsFatal(baseVirtualAddress)
                             THEN "fatal" ELSE "returned",
                             <<>>)

\* Platform::freeVirtualPages(baseVirtualAddress, numPages)
FreeVirtualPages(baseVirtualAddress, numPages) ==
    LET called == Called("freeVirtualPages", baseVirtualAddress, numPages)
    IN  IF ~isPageAligned(baseVirtualAddress)
        THEN /\ vmCall' = called @@ Ended(FALSE, "fatal", <<>>)
             /\ UNCHANGED <<reservations, committed>>
        ELSE IF CanRelease(baseVirtualAddress)
        THEN /\ reservations' = ReleaseAt(baseVirtualAddress)
             /\ committed' = Decommitted(baseVirtualAddress,
                               ReservationAt(baseVirtualAddress).size)
             /\ vmCall' = called @@ Ended(FALSE, "returned", <<>>)
        ELSE /\ vmCall' = called @@
                    Ended(TRUE,
                          IF rejectedFreeIsFatal(baseVirtualAddress)
                          THEN "fatal" ELSE "returned",
                          <<>>)
             /\ UNCHANGED <<reservations, committed>>

\* The process runs until a fatal error ends it.
VMRunning == IF vmCall = NoCall THEN TRUE ELSE vmCall.outcome # "fatal"

\* The caller of a successful allocateAlignedVirtualPages frees what it
\* was given: freeAlignedVirtualPages(outUnalignedBaseAddress, numPages,
\* alignmentLog2).
FreeAllocation ==
    /\ alloc.pc = "done"
    /\ alloc.result # nullptr
    /\ vmCall = NoCall
    /\ FreeAlignedVirtualPages(alloc.outUnalignedBaseAddress, alloc.numPages)
    /\ UNCHANGED alloc

VMIdle ==
    /\ alloc = NewCall(0, 0)
    /\ reservations = {}
    /\ committed = {}
    /\ vmCall = NoCall

\* A thread is about to call allocateAlignedVirtualPages(numPages,
\* alignmentLog2, outUnalignedBaseAddress).
VMInit ==
    /\ alloc \in {NewCall(numPages, alignmentLog2) :
                      numPages \in NumPagesArguments,
                      alignmentLog2 \in AlignmentLog2Arguments}
    /\ reservations = {}
    /\ committed = {}
    /\ vmCall = NoCall

VMNext ==
    \/ AllocateUnaligned /\ UNCHANGED exceptVM
    \/ Probe /\ UNCHANGED exceptVM
    \/ FreeProbe /\ UNCHANGED exceptVM
    \/ ReReserve /\ UNCHANGED exceptVM
    \/ FreeAllocation /\ UNCHANGED exceptVM
    \/ \E base \in 0..(AddressSpaceEnd - 1) :
           OtherThreadReserves(base)
               /\ UNCHANGED exceptVM
    \/ \E r \in reservations :
           OtherThreadReleases(r)
               /\ UNCHANGED exceptVM

\* A thread calls the page operations one after another.
VMOpsNext ==
    \/ \E numPages \in OpNumPagesArguments :
           /\ VMRunning
           /\ AllocateVirtualPages(numPages)
           /\ UNCHANGED <<alloc, exceptVM>>
    \/ \E base \in BaseArguments, numPages \in OpNumPagesArguments,
          access \in MemoryAccess :
           /\ VMRunning
           /\ CommitVirtualPages(base, numPages, access)
           /\ UNCHANGED <<alloc, exceptVM>>
    \/ \E base \in BaseArguments, numPages \in OpNumPagesArguments,
          access \in MemoryAccess :
           /\ VMRunning
           /\ SetVirtualPageAccess(base, numPages, access)
           /\ UNCHANGED <<alloc, exceptVM>>
    \/ \E base \in BaseArguments, numPages \in OpNumPagesArguments :
           /\ VMRunning
           /\ DecommitVirtualPages(base, numPages)
           /\ UNCHANGED <<alloc, exceptVM>>
    \/ \E base \in BaseArguments, numPages \in OpNumPagesArguments :
           /\ VMRunning
           /\ FreeVirtualPages(base, numPages)
           /\ UNCHANGED <<alloc, exceptVM>>
    \/ \E base \in BaseArguments, numPages \in OpNumPagesArguments :
           /\ VMRunning
           /\ FreeAlignedVirtualPages(base, numPages)
           /\ UNCHANGED <<alloc, exceptVM>>

(***************************************************************************)
(* FuzzInstantiate.cpp: StubResolver, and linkModule as the fuzz target    *)
(* calls it.  The runtime's constructors (createMemory, createTable,       *)
(* createGlobal, createExceptionTypeInstance, instantiateModule) and       *)
(* linkModule itself are modelled from their description.                  *)
(***************************************************************************)
MaxImports == 2

ExportNames == {"foo", "bar"}

\* The value types a function of a validated module can return.
ResultValueTypes ==
    {"i32", "i64", "f32", "f64", "v128", "anyref", "anyfunc", "nullref"}

ObjectKind == {"function", "table", "memory", "global", "exceptionType"}

\* IR::ObjectType: a kind and the type of that kind.
ObjectTypes ==
    {[kind |-> "function", type |-> [results |-> r, params |-> <<"i32">>]] :
         r \in {<<>>} \cup {<<t>> : t \in ResultValueTypes}}
    \cup {[kind |-> "table", type |-> [elementType |-> "anyfunc", min |-> 0]],
          [kind |-> "memory", type |-> [min |-> 1]],
          [kind |-> "global",
           type |-> [valueType |-> "i32", isMutable |-> FALSE]],
          [kind |-> "global",
           type |-> [valueType |-> "anyref", isMutable |-> TRUE]],
          [kind |-> "exceptionType", type |-> [params |-> <<"i64">>]]}

Imports ==
    {[moduleName |-> "env", exportName |-> e, type |-> t] :
         e \in ExportNames, t \in ObjectTypes}

nullObject == [kind |-> "null"]

Unreachable == [kind |-> "Errors::unreachable"]

\* The operator the stub body pushes for one result.
stubResultOp(result) ==
    CASE result = "i32" -> <<"i32.const 0">>
      [] result = "i64" -> <<"i64.const 0">>
      [] result = "f32" -> <<"f32.const 0">>
      [] result = "f64" -> <<"f64.const 0">>
      [] result = "v128" -> <<"v128.const 0">>
      [] result \in {"anyref", "anyfunc", "nullref"} -> <<"ref.null">>
      [] OTHER -> <<"Errors::unreachable">>

RECURSIVE stubCode(_)
stubCode(resultTypes) ==
    IF resultTypes = <<>> THEN <<"end">>
    ELSE stubResultOp(Head(resultTypes)) \o stubCode(Tail(resultTypes))

\* Runtime::instantiateModule(compartment, compileModule(stubModule), {},
\* "importStub") followed by getInstanceExport(..., "importStub"): the
\* function the stub module defines and exports.
instantiateStubModule(functionType, code, name) ==
    [kind |-> "function", type |-> functionType, code |-> code,
     debugName |-> name]

\* Runtime::createMemory, createTable, createGlobal and
\* createExceptionTypeInstance: an object of the type asked for.
createObject(kind, type) == [kind |-> kind, type |-> type]

\* StubResolver::getStubObject answering with a memory for every kind but
\* function.
getStubObjectAlwaysMemory(exportName, type) ==
    IF type.kind = "function"
    THEN instantiateStubModule(type.type, stubCode(type.type.results),
                               "importStub: " \o exportName)
    ELSE createObject("memory", type.type)

\* StubResolver::getStubObject(exportName, type)
getStubObject(exportName, type) ==
    CASE type.kind = "function" ->
             IF "Errors::unreachable"
                    \in {stubCode(type.type.results)[k] :
                             k \in 1..Len(stubCode(type.type.results))}
             THEN Unreachable
             ELSE instantiateStubModule(type.type,
                                        stubCode(type.type.results),
                                        "importStub: " \o exportName)
      [] type.kind = "memory" -> createObject("memory", type.type)
      [] type.kind = "table" -> createObject("table", type.type)
      [] type.kind = "global" -> createObject("global", type.type)
      [] type.kind = "exceptionType" ->
             createObject("exceptionType", type.type)
      [] OTHER -> Unreachable

\* StubResolver::resolve(moduleName, exportName, type, outObject)
resolve(moduleName, exportName, type) ==
    [ok |-> TRUE, outObject |-> getStubObject(exportName, type)]

\* The object is of the expected kind and type.
isA(object, type) ==
    /\ object # nullObject
    /\ object.kind = type.kind
    /\ object.type = type.type

NoLink ==
    [pc |-> "idle", resolvedImports |-> <<>>, missingImports |-> <<>>,
     mismatches |-> <<>>, success |-> <<>>]

\* linkModule(module, stubResolver) taking the next import: it consults the
\* resolver and collects the object, or records the import as missing or
\* mismatched.
LinkImport ==
    /\ linkResult.pc = "linking"
    /\ Len(linkResult.resolvedImports) + Len(linkResult.missingImports)
           + Len(linkResult.mismatches) < Len(imports)
    /\ LET index == Len(linkResult.resolvedImports)
                        + Len(linkResult.missingImports)
                        + Len(linkResult.mismatches) + 1
           import == imports[index]
           answer == resolve(import.moduleName, import.exportName,
                             import.type)
       IN  linkResult' =
               IF answer.outObject = Unreachable
               THEN [linkResult EXCEPT !.pc = "fatal"]
               ELSE IF ~answer.ok
               THEN [linkResult EXCEPT
                       !.missingImports = Append(@, index)]
               ELSE IF ~isA(answer.outObject, import.type)
               THEN [linkResult EXCEPT !.mismatches = Append(@, index)]
               ELSE [linkResult EXCEPT
                       !.resolvedImports = Append(@, answer.outObject)]
    /\ UNCHANGED imports

\* linkModule returns: success iff nothing is missing or mismatched.
LinkReturn ==
    /\ linkResult.pc = "linking"
    /\ Len(linkResult.resolvedImports) + Len(linkResult.missingImports)
           + Len(linkResult.mismatches) = Len(imports)
    /\ linkResult' =
           [linkResult EXCEPT
               !.pc = "returned",
               !.success = <<linkResult.missingImports = <<>>
                               /\ linkResult.mismatches = <<>>>>]
    /\ UNCHANGED imports

LinkIdle ==
    /\ imports = <<>>
    /\ linkResult = NoLink

\* LLVMFuzzerTestOneInput has loaded a module and calls linkModule.
LinkInit ==
    /\ imports \in UNION {[1..n -> Imports] : n \in 0..MaxImports}
    /\ linkResult = [NoLink EXCEPT !.pc = "linking"]

LinkNext ==
    \/ LinkImport /\ UNCHANGED exceptLink
    \/ LinkReturn /\ UNCHANGED exceptLink

(***************************************************************************)
(* Windows.cpp: captureCallStack and the reporting of errors, on the       *)
(* thread whose frames are in stack.                                       *)
(***************************************************************************)
MaxReports == 1

\* The instruction pointers inside the reporting functions themselves,
\* which are none of those of the thread's other frames.
captureCallStackIp == Cardinality(InstructionPointers) + 1

dumpErrorCallStackIp == captureCallStackIp + 1

handleAssertionFailureIp == dumpErrorCallStackIp + 1

\* The values of numOmittedFramesFromTop the callers pass, the largest Uptr
\* among them.
OmittedArguments == (0..(MaxDepth + 1)) \cup {UptrSize - 1}

Messages == {"fatal error", "out of memory"}

Line(text, ip) == [text |-> text, ip |-> ip]

\* Platform::captureCallStack(numOmittedFramesFromTop), called with the
\* frames of context below it: RtlCaptureContext in its own frame, then
\* unwindStack(context, numOmittedFramesFromTop + 1).
captureCallStack(context, numOmittedFramesFromTop) ==
    unwindStack(context \o <<captureCallStackIp>>,
                (numOmittedFramesFromTop + 1) % UptrSize)

\* The lines dumpErrorCallStack(numOmittedFramesFromTop) writes, called with
\* the frames of context below it.
dumpErrorCallStack(context, numOmittedFramesFromTop) ==
    LET callStack == captureCallStack(context \o <<dumpErrorCallStackIp>>,
                                      numOmittedFramesFromTop)
    IN  <<Line("Call stack:", 0)>>
            \o [i \in 1..Len(callStack) |-> Line("frame", callStack[i].ip)]

Reports == Cardinality({i \in DOMAIN stderr : stderr[i].text # "frame"})

\* Some function of the thread calls captureCallStack(n).
CaptureCallStack(numOmittedFramesFromTop) ==
    /\ Running
    /\ outcome' = [fn |-> "captureCallStack",
                   numOmittedFramesFromTop |-> numOmittedFramesFromTop,
                   context |-> ContextOf(stack),
                   callStack |-> captureCallStack(ContextOf(stack),
                                                  numOmittedFramesFromTop)]
    /\ UNCHANGED <<stack, exception, process, freed, isThreadInitialized,
                   stackGuarantee, stderr, exitCode>>

\* Platform::handleFatalError(messageFormat, varArgs): the message is
\* written and flushed, a debugger if present is entered with DebugBreak
\* and left again, and TerminateProcess(GetCurrentProcess(), 1) ends the
\* process.
HandleFatalError(message, isDebuggerPresent) ==
    /\ Running
    /\ stderr' = Append(stderr, Line(message, 0))
    /\ exitCode' = <<1>>
    /\ process' = "terminated: TerminateProcess"
    /\ outcome' = [fn |-> "handleFatalError",
                   debugBreak |-> isDebuggerPresent]
    /\ UNCHANGED <<stack, exception, freed, isThreadInitialized,
                   stackGuarantee>>

\* Platform::handleAssertionFailure(metadata): the assertion is written,
\* then dumpErrorCallStack(2), and the function returns to its caller.
HandleAssertionFailure ==
    /\ Running
    /\ Reports < MaxReports
    /\ stderr' = Append(stderr, Line("Assertion failed", 0))
           \o dumpErrorCallStack(
                  ContextOf(stack) \o <<handleAssertionFailureIp>>, 2)
    /\ outcome' = [fn |-> "handleAssertionFailure"]
    /\ UNCHANGED <<stack, exception, process, freed, isThreadInitialized,
                   stackGuarantee, exitCode>>

ReportingIdle ==
    /\ stderr = <<>>
    /\ exitCode = <<>>

ReportingNext ==
    \/ \E ip \in InstructionPointers :
           Call(ip) /\ UNCHANGED <<exceptReporting, fatalVars>>
    \/ Return /\ UNCHANGED <<exceptReporting, fatalVars>>
    \/ \E n \in OmittedArguments :
           CaptureCallStack(n) /\ UNCHANGED exceptReporting
    \/ \E message \in Messages, isDebuggerPresent \in BOOLEAN :
           HandleFatalError(message, isDebuggerPresent)
               /\ UNCHANGED exceptReporting
    \/ HandleAssertionFailure /\ UNCHANGED exceptReporting

(***************************************************************************)
(* Windows.cpp: setSignalHandler called from several threads, and the      *)
(* unhandled-exception filter delivering a signal to the handler.          *)
(***************************************************************************)
MaxHandlerCalls == 2

Threads == {"t1", "t2"}

SignalHandlers == {"handlerA", "handlerB"}

nullHandler == "null"

NoDelivery == [handler |-> "none"]

\* signalHandler.store(handler) that keeps a handler already stored.
storeKeepsFirst(current, handler) ==
    IF current = nullHandler THEN handler ELSE current

\* signalHandler.store(handler)
store(current, handler) == handler

\* A thread calls Platform::setSignalHandler(handler).
SetSignalHandlerCall(t, handler) ==
    /\ handlerLog.delivered = NoDelivery
    /\ handlerCalls[t].pc = "idle"
    /\ handlerCalls[t].calls < MaxHandlerCalls
    /\ handlerCalls' = [handlerCalls EXCEPT
                           ![t] = [pc |-> "static", handler |-> handler,
                                   calls |-> @.calls + 1]]
    /\ UNCHANGED <<unhandledExceptionFilterRegistrar, registeredFilters,
                   signalHandler, handlerLog>>

\* The function-local static: the first thread to reach it starts its
\* construction, a thread that finds it under construction waits, and a
\* thread that finds it constructed goes on.
EnterStatic(t) ==
    /\ handlerLog.delivered = NoDelivery
    /\ handlerCalls[t].pc = "static"
    /\ unhandledExceptionFilterRegistrar # "constructing"
    /\ IF unhandledExceptionFilterRegistrar = "unconstructed"
       THEN /\ unhandledExceptionFilterRegistrar' = "constructing"
            /\ handlerCalls' = [handlerCalls EXCEPT ![t].pc = "constructor"]
       ELSE /\ handlerCalls' = [handlerCalls EXCEPT ![t].pc = "store"]
            /\ UNCHANGED unhandledExceptionFilterRegistrar
    /\ UNCHANGED <<registeredFilters, signalHandler, handlerLog>>

\* UnhandledExceptionFilterRegistrar():
\* SetUnhandledExceptionFilter(unhandledExceptionFilter);
RegisterFilter(t) ==
    /\ handlerLog.delivered = NoDelivery
    /\ handlerCalls[t].pc = "constructor"
    /\ registeredFilters' = registeredFilters + 1
    /\ unhandledExceptionFilterRegistrar' = "constructed"
    /\ handlerCalls' = [handlerCalls EXCEPT ![t].pc = "store"]
    /\ UNCHANGED <<signalHandler, handlerLog>>

\* signalHandler.store(handler);
StoreHandler(t) ==
    /\ handlerLog.delivered = NoDelivery
    /\ handlerCalls[t].pc = "store"
    /\ signalHandler' = store(signalHandler, handlerCalls[t].handler)
    /\ handlerLog' = [handlerLog EXCEPT
                         !.stores = Append(@, handlerCalls[t].handler)]
    /\ handlerCalls' = [handlerCalls EXCEPT ![t].pc = "return"]
    /\ UNCHANGED <<unhandledExceptionFilterRegistrar, registeredFilters>>

\* setSignalHandler returns to its caller.
SetSignalHandlerReturn(t) ==
    /\ handlerLog.delivered = NoDelivery
    /\ handlerCalls[t].pc = "return"
    /\ handlerLog' = [handlerLog EXCEPT
                         !.completed = Append(@, handlerCalls[t].handler)]
    /\ handlerCalls' = [handlerCalls EXCEPT ![t].pc = "idle"]
    /\ UNCHANGED <<unhandledExceptionFilterRegistrar, registeredFilters,
                   signalHandler>>

\* A signal no __except takes reaches the registered filter:
\* unhandledExceptionFilterNonRentrant calls (signalHandler.load())(signal,
\* callStack).
UnhandledSignal ==
    /\ handlerLog.delivered = NoDelivery
    /\ registeredFilters > 0
    /\ handlerLog' = [handlerLog EXCEPT
                         !.delivered = [handler |-> signalHandler],
                         !.via = "SetUnhandledExceptionFilter"]
    /\ UNCHANGED <<handlerCalls, unhandledExceptionFilterRegistrar,
                   registeredFilters, signalHandler>>

\* A signal or WAVM exception escapes the entry function of a thread that
\* createThread or forkCurrentThread started: the __except of
\* createThreadEntry / forkThreadEntry calls unhandledExceptionFilter itself,
\* whether or not setSignalHandler has registered it.
UnhandledInThreadEntry ==
    /\ handlerLog.delivered = NoDelivery
    /\ handlerLog' = [handlerLog EXCEPT
                         !.delivered = [handler |-> signalHandler],
                         !.via = "createThreadEntry"]
    /\ UNCHANGED <<handlerCalls, unhandledExceptionFilterRegistrar,
                   registeredFilters, signalHandler>>

HandlerInit ==
    /\ handlerCalls =
           [t \in Threads |->
               [pc |-> "idle", handler |-> nullHandler, calls |-> 0]]
    /\ unhandledExceptionFilterRegistrar = "unconstructed"
    /\ registeredFilters = 0
    /\ signalHandler = nullHandler
    /\ handlerLog =
           [stores |-> <<>>, completed |-> <<>>, delivered |-> NoDelivery,
            via |-> "none"]

HandlerNext ==
    \/ \E t \in Threads, handler \in SignalHandlers :
           SetSignalHandlerCall(t, handler) /\ UNCHANGED exceptHandler
    \/ \E t \in Threads : EnterStatic(t) /\ UNCHANGED exceptHandler
    \/ \E t \in Threads : RegisterFilter(t) /\ UNCHANGED exceptHandler
    \/ \E t \in Threads : StoreHandler(t) /\ UNCHANGED exceptHandler
    \/ \E t \in Threads : SetSignalHandlerReturn(t) /\ UNCHANGED exceptHandler
    \/ UnhandledSignal /\ UNCHANGED exceptHandler
    \/ UnhandledInThreadEntry /\ UNCHANGED exceptHandler

(***************************************************************************)
(* Windows.cpp: the threads of the process, their initThread calls and     *)
(* forkCurrentThread.                                                      *)
(***************************************************************************)
MaxCatchSignalsCalls == 2

\* The size of every thread's stack, the most of it a thread has active,
\* and the room forkCurrentThread wants beyond the active part (65536 + 4096
\* bytes), all in one scaled unit.
NumStackBytes == 3
MaxActiveStackBytes == 2
ForkReserveBytes == 2

ThreadIds == {"main", "t1", "t2", "t3"}

\* GetCurrentThreadStackLimits of each thread: stacks do not overlap.
StackIndex(t) ==
    CASE t = "main" -> 1 [] t = "t1" -> 2 [] t = "t2" -> 3 [] t = "t3" -> 4

minStackAddr(t) == StackIndex(t) * (NumStackBytes + 1)

maxStackAddr(t) == minStackAddr(t) + NumStackBytes

\* A thread that does not exist yet; its thread_local variables start as
\* their initialisers say.
Unborn ==
    [status |-> "unborn", origin |-> "none", isThreadInitialized |-> FALSE,
     stackGuarantee |-> 0, guaranteeCalls |-> 0,
     granted |-> FALSE, threadEntryFramePointer |-> 0,
     argsThreadEntryFramePointer |-> 0,
     forkReturn |-> <<>>,
     catchSignalsCalls |-> 0]

ThreadsRunning == threadsFatal = <<>>

\* The thread the system makes next: thread ids are handed out in order.
IsNextThread(child) ==
    /\ threads[child].status = "unborn"
    /\ \A t \in ThreadIds :
           StackIndex(t) < StackIndex(child) => threads[t].status # "unborn"

\* The thread after a call of initThread(); granted is the system's answer
\* to SetThreadStackGuarantee, kept when the call was made.
AfterInitThread(thread, granted) ==
    LET r == initThread(thread.isThreadInitialized, thread.stackGuarantee,
                        thread.guaranteeCalls, granted)
    IN  [thread EXCEPT !.isThreadInitialized = r.isThreadInitialized,
                       !.stackGuarantee = r.stackGuarantee,
                       !.guaranteeCalls = r.guaranteeCalls,
                       !.granted = IF r.guaranteeCalls > thread.guaranteeCalls
                                   THEN granted ELSE @]

\* The thread calls Platform::catchSignals: initThread() comes first.
ThreadCatchSignals(t, granted) ==
    /\ ThreadsRunning
    /\ threads[t].status = "running"
    /\ threads[t].catchSignalsCalls < MaxCatchSignalsCalls
    /\ threads' = [threads EXCEPT
                      ![t] = [AfterInitThread(@, granted) EXCEPT
                                 !.catchSignalsCalls = @ + 1]]
    /\ UNCHANGED threadsFatal

\* Platform::createThread: a running thread creates another.
CreateThread(parent, child) ==
    /\ ThreadsRunning
    /\ threads[parent].status = "running"
    /\ IsNextThread(child)
    /\ threads' = [threads EXCEPT ![child].status = "created",
                                  ![child].origin = "createThread"]
    /\ UNCHANGED threadsFatal

\* createThreadEntry2 on the new thread: initThread(), then
\* threadEntryFramePointer = getStackPointer() and the entry function.
CreateThreadEntry(t, granted) ==
    /\ ThreadsRunning
    /\ threads[t].status = "created"
    /\ threads' = [threads EXCEPT
                      ![t] = [AfterInitThread(@, granted) EXCEPT
                                 !.status = "running",
                                 !.threadEntryFramePointer =
                                     maxStackAddr(t) - 1]]
    /\ UNCHANGED threadsFatal

\* forkedStackMaxAddr: (Rsp & -16) - 4096 of the suspended thread, whose
\* stack pointer is at the top of its stack.
forkedStackMaxAddr(child) == maxStackAddr(child) - 1

\* forkedStackOffset = forkedStackMaxAddr - maxActiveStackAddr, where
\* maxActiveStackAddr = threadEntryFramePointer.
forkedStackOffset(parentEntryFramePointer, child) ==
    forkedStackMaxAddr(child) - parentEntryFramePointer

\* forkThreadArgs->threadEntryFramePointer, left where it was.
translatedEntryFramePointerUntranslated(parentEntryFramePointer, child) ==
    parentEntryFramePointer

\* forkThreadArgs->threadEntryFramePointer =
\*     threadEntryFramePointer + forkedStackOffset
translatedEntryFramePointer(parentEntryFramePointer, child) ==
    parentEntryFramePointer
        + forkedStackOffset(parentEntryFramePointer, child)

\* Why forkCurrentThread on the thread ends in Errors::fatal, or "" if it
\* does not.
forkFatal(thread, numActiveStackBytes, child) ==
    IF thread.threadEntryFramePointer = 0
    THEN "Cannot fork a thread that wasn't created by Platform::createThread"
    ELSE IF numActiveStackBytes + ForkReserveBytes > NumStackBytes
    THEN "not enough stack space to fork thread"
    ELSE IF ~(numActiveStackBytes
                 < forkedStackMaxAddr(child) - minStackAddr(child))
    THEN "errorUnless"
    ELSE ""

\* Platform::forkCurrentThread on the calling thread, called with so much of
\* its stack active: fatal, or a suspended thread is created, given a copy
\* of the active stack and the translated entry frame pointer, and resumed;
\* the call returns the new Thread.
ForkCurrentThread(parent, child, numActiveStackBytes) ==
    /\ ThreadsRunning
    /\ threads[parent].status = "running"
    /\ IsNextThread(child)
    /\ IF forkFatal(threads[parent], numActiveStackBytes, child) # ""
       THEN /\ threadsFatal' =
                   <<[thread |-> parent,
                      numActiveStackBytes |-> numActiveStackBytes,
                      message |-> forkFatal(threads[parent],
                                            numActiveStackBytes, child)]>>
            /\ UNCHANGED threads
       ELSE /\ threads' =
                   [threads EXCEPT
                       ![parent].forkReturn = <<child>>,
                       ![child].status = "forked",
                       ![child].origin = "forkCurrentThread",
                       ![child].argsThreadEntryFramePointer =
                           translatedEntryFramePointer(
                               threads[parent].threadEntryFramePointer,
                               child)]
            /\ UNCHANGED threadsFatal

\* forkThreadEntry2 on the forked thread: threadEntryFramePointer =
\* args->threadEntryFramePointer, the saved context is resumed inside
\* forkCurrentThread, and there
\* "if(isExecutingInFork) { initThread(); return nullptr; }".
ForkResume(t, granted) ==
    /\ ThreadsRunning
    /\ threads[t].status = "forked"
    /\ threads' = [threads EXCEPT
                      ![t] = [AfterInitThread(@, granted) EXCEPT
                                 !.status = "running",
                                 !.threadEntryFramePointer =
                                     threads[t].argsThreadEntryFramePointer,
                                 !.forkReturn = <<"nullptr">>]]
    /\ UNCHANGED threadsFatal

ThreadsIdle ==
    /\ threads = [t \in ThreadIds |-> Unborn]
    /\ threadsFatal = <<>>

\* The process has started: its first thread runs.
ThreadsInit ==
    /\ threads = [t \in ThreadIds |->
                     IF t = "main"
                     THEN [Unborn EXCEPT !.status = "running",
                                         !.origin = "process"]
                     ELSE Unborn]
    /\ threadsFatal = <<>>

ThreadsNext ==
    \/ \E t \in ThreadIds, granted \in BOOLEAN :
           ThreadCatchSignals(t, granted) /\ UNCHANGED exceptThreads
    \/ \E parent \in ThreadIds, child \in ThreadIds :
           CreateThread(parent, child) /\ UNCHANGED exceptThreads
    \/ \E t \in ThreadIds, granted \in BOOLEAN :
           CreateThreadEntry(t, granted) /\ UNCHANGED exceptThreads
    \/ \E parent \in ThreadIds, child \in ThreadIds,
          numActiveStackBytes \in 1..MaxActiveStackBytes :
           ForkCurrentThread(parent, child, numActiveStackBytes)
               /\ UNCHANGED exceptThreads
    \/ \E t \in ThreadIds, granted \in BOOLEAN :
           ForkResume(t, granted) /\ UNCHANGED exceptThreads

(***************************************************************************)
(* Core.h: struct Timer.                                                   *)
(***************************************************************************)
MaxTime == 4
MaxTimerCalls == 3
TicksPerMicrosecond == 2

\* std::chrono::duration_cast<std::chrono::microseconds>(d).count(): the
\* whole microseconds in d ticks of the clock.
durationCastMicroseconds(d) == d \div TicksPerMicrosecond

\* Timer(): startTime(now()), isStopped(false); endTime is the clock's epoch.
Timer(time) == [startTime |-> time, endTime |-> 0, isStopped |-> FALSE]

\* void stop() { endTime = now(); }
stop(t, time) == [t EXCEPT !.endTime = time]

\* The Timer after getMicroseconds(): if(!isStopped) { stop(); }
afterGetMicroseconds(t, time) == IF ~t.isStopped THEN stop(t, time) ELSE t

\* What getMicroseconds() returns.
getMicroseconds(t, time) ==
    LET after == afterGetMicroseconds(t, time)
    IN  durationCastMicroseconds(after.endTime - after.startTime)

\* A returned time as the quotient microseconds / per: getMicroseconds()
\* itself, getMicroseconds() / 1000.0 and getMicroseconds() / 1000000.0.
TimerReads ==
    [getMicroseconds |-> 1, getMilliseconds |-> 1000,
     getSeconds |-> 1000000]

\* The clock advances.
Tick ==
    /\ now < MaxTime
    /\ now' = now + 1
    /\ UNCHANGED <<timer, timerLog>>

\* timer.stop()
TimerStop ==
    /\ Len(timerLog) < MaxTimerCalls
    /\ timer' = stop(timer, now)
    /\ timerLog' = Append(timerLog,
                          [fn |-> "stop", microseconds |-> 0, per |-> 1])
    /\ UNCHANGED now

\* timer.getMicroseconds(), timer.getMilliseconds() or timer.getSeconds()
TimerRead(fn) ==
    /\ Len(timerLog) < MaxTimerCalls
    /\ timer' = afterGetMicroseconds(timer, now)
    /\ timerLog' = Append(timerLog,
                          [fn |-> fn,
                           microseconds |-> getMicroseconds(timer, now),
                           per |-> TimerReads[fn]])
    /\ UNCHANGED now

TimerIdle == now = 0 /\ timer = Timer(0) /\ timerLog = <<>>

\* A Timer has just been constructed, at some time of the clock.
TimerInit ==
    /\ now \in 0..1
    /\ timer = Timer(now)
    /\ timerLog = <<>>

TimerNext ==
    \/ Tick /\ UNCHANGED exceptTimer
    \/ TimerStop /\ UNCHANGED exceptTimer
    \/ \E fn \in DOMAIN TimerReads : TimerRead(fn) /\ UNCHANGED exceptTimer

(***************************************************************************)
(* Windows.cpp: Platform::createThread and the processor groups.           *)
(***************************************************************************)
\* The width of U16, scaled down, and the most processor groups the system
\* reports.
U16Bits == 3
MaxProcessorGroups == 3
U16Size == 2 ^ U16Bits
MaxCreateThreadCalls == U16Size + 2

Creators == {"c1", "c2"}

NotCreating == [pc |-> "idle", index |-> 0, group |-> 0]

\* nextProcessorGroup++ on a U16: the value it returns and the value it leaves.
postIncrement(counter) == [value |-> counter, next |-> (counter + 1) % U16Size]

\* groupAffinity.Group = nextProcessorGroup++ % processorGroupInfos.size()
groupOf(counter, numGroups) == postIncrement(counter).value % numGroups

\* createThread up to CreateThread(...): the new thread exists.
CreateThreadCall(c) ==
    /\ creators[c].pc = "idle"
    /\ numIncrements + Cardinality({d \in Creators : creators[d].pc = "created"})
          < MaxCreateThreadCalls
    /\ creators' = [creators EXCEPT ![c].pc = "created"]
    /\ UNCHANGED <<processorGroupInfos, nextProcessorGroup, numIncrements>>

\* static std::vector<ProcessorGroupInfo> processorGroupInfos =
\* getProcessorGroupInfos(): initialised by the first caller to get there,
\* with as many entries as GetActiveProcessorGroupCount() says.
InitProcessorGroupInfos(c, numProcessorGroups) ==
    /\ creators[c].pc = "created"
    /\ processorGroupInfos = <<>>
    /\ processorGroupInfos' = <<numProcessorGroups>>
    /\ UNCHANGED <<nextProcessorGroup, numIncrements, creators>>

\* groupAffinity.Group = nextProcessorGroup++ % processorGroupInfos.size():
\* the increment is one atomic step.
TakeGroup(c) ==
    /\ creators[c].pc = "created"
    /\ processorGroupInfos # <<>>
    /\ nextProcessorGroup' = postIncrement(nextProcessorGroup).next
    /\ numIncrements' = numIncrements + 1
    /\ creators' = [creators EXCEPT
                       ![c] = [pc |-> "assigned",
                               index |-> numIncrements,
                               group |-> groupOf(nextProcessorGroup,
                                                 processorGroupInfos[1])]]
    /\ UNCHANGED processorGroupInfos

\* SetThreadGroupAffinity(thread->handle, &groupAffinity, nullptr) and return.
CreateThreadReturn(c) ==
    /\ creators[c].pc = "assigned"
    /\ creators' = [creators EXCEPT ![c].pc = "idle"]
    /\ UNCHANGED <<processorGroupInfos, nextProcessorGroup, numIncrements>>

GroupsIdle ==
    /\ processorGroupInfos = <<>>
    /\ nextProcessorGroup = 0
    /\ numIncrements = 0
    /\ creators = [c \in Creators |-> NotCreating]

GroupsNext ==
    \/ \E c \in Creators : CreateThreadCall(c) /\ UNCHANGED exceptGroups
    \/ \E c \in Creators, numProcessorGroups \in 1..MaxProcessorGroups :
           InitProcessorGroupInfos(c, numProcessorGroups)
               /\ UNCHANGED exceptGroups
    \/ \E c \in Creators : TakeGroup(c) /\ UNCHANGED exceptGroups
    \/ \E c \in Creators : CreateThreadReturn(c) /\ UNCHANGED exceptGroups

(***************************************************************************)
(* Windows.cpp: Thread, CreateThreadArgs, createThread, createThreadEntry2,*)
(* detachThread, joinThread and exitThread for one created thread.         *)
(***************************************************************************)
MaxEntryDepth == 2

EntryResults == {-1, 0, 5}

\* The frames the entry function has above it when it returns or calls
\* exitThread: plain calls, catchSignals and catchPlatformExceptions thunks.
EntryFrames ==
    UNION {[1..n -> {"code", "catchSignals", "catchPlatformExceptions"}] :
               n \in 0..MaxEntryDepth}

\* struct Thread as createThread makes it: handle = INVALID_HANDLE_VALUE,
\* numRefs = 2, result = -1 (the placeholder).
NewThread ==
    [state |-> "live", numRefs |-> 2, handle |-> "INVALID_HANDLE_VALUE",
     result |-> -1, resultWritten |-> FALSE, frees |-> 0, closes |-> 0]

NoThread ==
    [state |-> "none", numRefs |-> 0, handle |-> "INVALID_HANDLE_VALUE",
     result |-> -1, resultWritten |-> FALSE, frees |-> 0, closes |-> 0]

\* createThreadEntry2 storing nothing when the entry leaves by exitThread.
entryResultDropsExitCode(thread, how, value) ==
    IF how = "exitThread" THEN thread
    ELSE [thread EXCEPT !.result = value, !.resultWritten = TRUE]

\* The Thread after createThreadEntry2 has stored the result: the value the
\* entry returned, or exception.exitCode of the ExitThreadException caught.
entryResult(thread, how, value) ==
    [thread EXCEPT !.result = value, !.resultWritten = TRUE]

\* void releaseRef() { if(--numRefs == 0) { delete this; } } and ~Thread():
\* errorUnless(CloseHandle(handle)).
releaseRef(thread) ==
    IF thread.numRefs - 1 = 0
    THEN [thread EXCEPT !.numRefs = 0,
                        !.state = "freed",
                        !.frees = @ + 1,
                        !.closes = @ + 1,
                        !.handle = "closed"]
    ELSE [thread EXCEPT !.numRefs = @ - 1]

\* The accesses an operation makes to the two records, checked against what
\* has been freed.
Touch(what, usesArgs, usesThread) ==
    (IF usesArgs /\ createThreadArgs = "freed"
     THEN {what \o ": CreateThreadArgs after free"} ELSE {})
    \cup
    (IF usesThread /\ threadObject.state = "freed"
     THEN {what \o ": Thread after free"} ELSE {})

\* The frame whose handler takes an ExitThreadException thrown above the
\* given frames, the youngest last: the __except filters of catchSignals
\* and catchPlatformExceptions are asked on the way; 0 is the catch of
\* createThreadEntry2.
RECURSIVE exitThreadHandler(_, _)
exitThreadHandler(frames, k) ==
    LET record == [code |-> "CPP_EXCEPTION", information |-> <<>>,
                   context |-> <<>>]
        disposition ==
            IF frames[k] = "catchSignals"
            THEN sehSignalFilterFunction(record, TRUE).disposition
            ELSE IF frames[k] = "catchPlatformExceptions"
            THEN sehPlatformExceptionFilterFunction(record).disposition
            ELSE "EXCEPTION_CONTINUE_SEARCH"
    IN  IF k = 0 THEN 0
        ELSE IF disposition = "EXCEPTION_EXECUTE_HANDLER" THEN k
        ELSE exitThreadHandler(frames, k - 1)

LifeRunning == threadOwner.pc # "undefined" /\ createdThread.pc # "undefined"

\* createThread: new CreateThreadArgs, new Thread, args->thread = thread.
OwnerAllocates ==
    /\ threadOwner.pc = "start"
    /\ threadObject' = NewThread
    /\ createThreadArgs' = "live"
    /\ threadOwner' = [threadOwner EXCEPT !.pc = "allocated"]
    /\ UNCHANGED <<createdThread, lifeErrors>>

\* CreateThread(nullptr, numStackBytes, createThreadEntry, args, 0, &id):
\* the new thread is not suspended and may run from here on.
OwnerCreateThread ==
    /\ threadOwner.pc = "allocated"
    /\ threadOwner' = [threadOwner EXCEPT !.pc = "created"]
    /\ createdThread' = [createdThread EXCEPT !.pc = "ready"]
    /\ lifeErrors' = lifeErrors \cup Touch("createThread", TRUE, TRUE)
    /\ UNCHANGED <<threadObject, createThreadArgs>>

\* thread->handle = (what CreateThread returned)
OwnerStoresHandle ==
    /\ LifeRunning
    /\ threadOwner.pc = "created"
    /\ threadObject' = [threadObject EXCEPT !.handle = "open"]
    /\ threadOwner' = [threadOwner EXCEPT !.pc = "handleStored"]
    /\ lifeErrors' = lifeErrors \cup Touch("createThread", FALSE, TRUE)
    /\ UNCHANGED <<createThreadArgs, createdThread>>

\* SetThreadGroupAffinity(thread->handle, ...)
OwnerSetsAffinity ==
    /\ LifeRunning
    /\ threadOwner.pc = "handleStored"
    /\ threadOwner' = [threadOwner EXCEPT !.pc = "affinitySet"]
    /\ lifeErrors' = lifeErrors \cup Touch("createThread", FALSE, TRUE)
    /\ UNCHANGED <<threadObject, createThreadArgs, createdThread>>

\* return args->thread: a read of the CreateThreadArgs record.  If the
\* record has been freed the pointer read is whatever the memory holds.
OwnerReturns(garbage) ==
    /\ LifeRunning
    /\ threadOwner.pc = "affinitySet"
    /\ garbage => createThreadArgs = "freed"
    /\ threadOwner' = [threadOwner EXCEPT
                          !.pc = "owns",
                          !.thread = IF garbage THEN "garbage" ELSE "thread"]
    /\ lifeErrors' = lifeErrors \cup Touch("createThread", TRUE, FALSE)
    /\ UNCHANGED <<threadObject, createThreadArgs, createdThread>>

\* The owner uses a pointer that is not its Thread.
OwnerUsesGarbage ==
    /\ LifeRunning
    /\ threadOwner.pc = "owns"
    /\ threadOwner.thread = "garbage"
    /\ threadOwner' = [threadOwner EXCEPT !.pc = "undefined"]
    /\ UNCHANGED <<threadObject, createThreadArgs, createdThread, lifeErrors>>

\* Platform::detachThread(thread): thread->releaseRef().
OwnerDetaches ==
    /\ LifeRunning
    /\ threadOwner.pc = "owns"
    /\ threadOwner.thread = "thread"
    /\ threadObject' = releaseRef(threadObject)
    /\ threadOwner' = [threadOwner EXCEPT !.pc = "done", !.how = "detach"]
    /\ lifeErrors' = lifeErrors \cup Touch("detachThread", FALSE, TRUE)
    /\ UNCHANGED <<createThreadArgs, createdThread>>

\* Platform::joinThread(thread): WaitForSingleObject(thread->handle,
\* INFINITE) returns WAIT_OBJECT_0 once the thread has finished.
OwnerJoinWaits ==
    /\ LifeRunning
    /\ threadOwner.pc = "owns"
    /\ threadOwner.thread = "thread"
    /\ createdThread.pc = "finished"
    /\ threadOwner' = [threadOwner EXCEPT !.pc = "waited", !.how = "join"]
    /\ lifeErrors' = lifeErrors \cup Touch("joinThread", FALSE, TRUE)
    /\ UNCHANGED <<threadObject, createThreadArgs, createdThread>>

\* const I64 result = thread->result; thread->releaseRef(); return result;
OwnerJoinReturns ==
    /\ LifeRunning
    /\ threadOwner.pc = "waited"
    /\ threadObject' = releaseRef(threadObject)
    /\ threadOwner' = [threadOwner EXCEPT
                          !.pc = "done",
                          !.joinResult = <<threadObject.result>>,
                          !.joinReadPlaceholder =
                              ~threadObject.resultWritten]
    /\ lifeErrors' = lifeErrors \cup Touch("joinThread", FALSE, TRUE)
    /\ UNCHANGED <<createThreadArgs, createdThread>>

\* createThreadEntry2: initThread(); unique_ptr<CreateThreadArgs> args;
\* threadEntryFramePointer = getStackPointer().
EntryStarts ==
    /\ LifeRunning
    /\ createdThread.pc = "ready"
    /\ createdThread' = [createdThread EXCEPT !.pc = "entered"]
    /\ UNCHANGED <<threadObject, createThreadArgs, threadOwner, lifeErrors>>

\* args->thread->result = (*args->entry)(args->entryArgument), the entry
\* returning the value; or the entry calling exitThread(value) under the
\* given frames, and "catch(ExitThreadException exception)
\* { args->thread->result = exception.exitCode; }".
EntryRuns(how, frames, value) ==
    /\ LifeRunning
    /\ createdThread.pc = "entered"
    /\ IF how = "exitThread" /\ exitThreadHandler(frames, Len(frames)) # 0
       THEN /\ createdThread' = [createdThread EXCEPT !.pc = "undefined"]
            /\ UNCHANGED <<threadObject, lifeErrors>>
       ELSE /\ createdThread' = [pc |-> "ran", how |-> how,
                                 frames |-> frames, value |-> <<value>>]
            /\ threadObject' = entryResult(threadObject, how, value)
            /\ lifeErrors' = lifeErrors
                                \cup Touch("createThreadEntry2", TRUE, TRUE)
    /\ UNCHANGED <<createThreadArgs, threadOwner>>

\* return 0: ~unique_ptr deletes the CreateThreadArgs, whose ~ThreadArgs
\* calls thread->releaseRef().
EntryReturns ==
    /\ LifeRunning
    /\ createdThread.pc = "ran"
    /\ threadObject' = releaseRef(threadObject)
    /\ createThreadArgs' = "freed"
    /\ createdThread' = [createdThread EXCEPT !.pc = "returned"]
    /\ lifeErrors' = lifeErrors \cup Touch("~ThreadArgs", TRUE, TRUE)
    /\ UNCHANGED threadOwner

\* The thread function has returned: the system signals the thread handle.
ThreadFinishes ==
    /\ LifeRunning
    /\ createdThread.pc = "returned"
    /\ createdThread' = [createdThread EXCEPT !.pc = "finished"]
    /\ UNCHANGED <<threadObject, createThreadArgs, threadOwner, lifeErrors>>

LifeIdle ==
    /\ threadObject = NoThread
    /\ createThreadArgs = "none"
    /\ threadOwner = [pc |-> "start", thread |-> "none", how |-> "none",
                      joinResult |-> <<>>, joinReadPlaceholder |-> FALSE]
    /\ createdThread = [pc |-> "none", how |-> "none", frames |-> <<>>,
                        value |-> <<>>]
    /\ lifeErrors = {}

LifeNext ==
    \/ OwnerAllocates /\ UNCHANGED exceptLife
    \/ OwnerCreateThread /\ UNCHANGED exceptLife
    \/ OwnerStoresHandle /\ UNCHANGED exceptLife
    \/ OwnerSetsAffinity /\ UNCHANGED exceptLife
    \/ \E garbage \in BOOLEAN : OwnerReturns(garbage) /\ UNCHANGED exceptLife
    \/ OwnerUsesGarbage /\ UNCHANGED exceptLife
    \/ OwnerDetaches /\ UNCHANGED exceptLife
    \/ OwnerJoinWaits /\ UNCHANGED exceptLife
    \/ OwnerJoinReturns /\ UNCHANGED exceptLife
    \/ EntryStarts /\ UNCHANGED exceptLife
    \/ \E how \in {"return", "exitThread"}, frames \in EntryFrames,
          value \in EntryResults :
           EntryRuns(how, frames, value) /\ UNCHANGED exceptLife
    \/ EntryReturns /\ UNCHANGED exceptLife
    \/ ThreadFinishes /\ UNCHANGED exceptLife

(***************************************************************************)
(* Windows.cpp: Platform::Event::wait on an event that is never signalled. *)
(***************************************************************************)
\* The width of U32 and the microseconds in a millisecond, both scaled down.
U32Bits == 2
MicrosecondsPerMillisecond == 2

UINT32_MAX == 2 ^ U32Bits - 1

INFINITE == UINT32_MAX

MaxMonotonicClock == MicrosecondsPerMillisecond * (UINT32_MAX + 1) + 1

\* timeoutMicroseconds, timeoutMilliseconds64 and timeoutMilliseconds32 of
\* one round of the loop.
timeoutMilliseconds32(currentTime, untilTime) ==
    LET timeoutMicroseconds ==
            IF currentTime > untilTime THEN 0 ELSE untilTime - currentTime
        timeoutMilliseconds64 ==
            timeoutMicroseconds \div MicrosecondsPerMillisecond
    IN  IF timeoutMilliseconds64 > UINT32_MAX
        THEN UINT32_MAX - 1
        ELSE timeoutMilliseconds64 % (UINT32_MAX + 1)

NotWaiting ==
    [pc |-> "idle", untilTime |-> 0, currentTime |-> 0, timeout |-> 0,
     waitStart |-> 0, result |-> <<>>]

\* Time passes.
ClockTick ==
    /\ monotonicClock < MaxMonotonicClock
    /\ monotonicClock' = monotonicClock + 1
    /\ UNCHANGED eventWait

\* event.wait(untilTime): currentTime = getMonotonicClock(), the timeout is
\* computed and WaitForSingleObject(handle, timeoutMilliseconds32) begins.
EventWaitCall(untilTime) ==
    /\ eventWait.pc = "idle"
    /\ eventWait' = [pc |-> "waiting", untilTime |-> untilTime,
                     currentTime |-> monotonicClock,
                     timeout |-> timeoutMilliseconds32(monotonicClock,
                                                       untilTime),
                     waitStart |-> monotonicClock, result |-> <<>>]
    /\ UNCHANGED monotonicClock

\* WaitForSingleObject returns WAIT_TIMEOUT, which it does once the timeout
\* has passed and never for INFINITE: currentTime = getMonotonicClock();
\* return false if currentTime >= untilTime, else the next round.
EventWaitTimeout ==
    /\ eventWait.pc = "waiting"
    /\ eventWait.timeout # INFINITE
    /\ monotonicClock
          >= eventWait.waitStart
                 + eventWait.timeout * MicrosecondsPerMillisecond
    /\ eventWait' =
           IF monotonicClock >= eventWait.untilTime
           THEN [eventWait EXCEPT !.pc = "returned",
                                  !.currentTime = monotonicClock,
                                  !.result = <<FALSE>>]
           ELSE [eventWait EXCEPT
                    !.currentTime = monotonicClock,
                    !.timeout = timeoutMilliseconds32(monotonicClock,
                                                      eventWait.untilTime),
                    !.waitStart = monotonicClock]
    /\ UNCHANGED monotonicClock

EventIdle == monotonicClock = 0 /\ eventWait = NotWaiting

EventNext ==
    \/ ClockTick /\ UNCHANGED exceptEvent
    \/ \E untilTime \in 0..MaxMonotonicClock :
           EventWaitCall(untilTime) /\ UNCHANGED exceptEvent
    \/ EventWaitTimeout /\ UNCHANGED exceptEvent

(***************************************************************************)
(* Windows.cpp: File* as an encoding of HANDLE, openFile and closeFile.    *)
(***************************************************************************)
MaxOpenFiles == 2

\* INVALID_HANDLE_VALUE is (HANDLE)-1: all bits of a Uptr set.
INVALID_HANDLE_VALUE == UptrSize - 1

Handles == 0..(UptrSize - 1)

\* The handles CreateFileW gives out for files it has opened.
FileHandles == {4, 8, UptrSize - 4}

\* fileHandleToPointer returning the handle's own bits.
fileHandleToPointerSameBits(handle) == handle

\* reinterpret_cast<File*>(reinterpret_cast<Uptr>(handle) + 1)
fileHandleToPointer(handle) == (handle + 1) % UptrSize

\* reinterpret_cast<HANDLE>(reinterpret_cast<Uptr>(file) - 1)
filePointerToHandle(file) == (file + UptrSize - 1) % UptrSize

NoFileCall == [fn |-> "none"]

FileAccessModes == {"readOnly", "writeOnly", "readWrite"}

FileCreateModes ==
    {"createAlways", "createNew", "openAlways", "openExisting",
     "truncateExisting"}

\* switch(accessMode): desiredAccess
desiredAccessOf(accessMode) ==
    CASE accessMode = "readOnly" -> {"GENERIC_READ"}
      [] accessMode = "writeOnly" -> {"GENERIC_WRITE"}
      [] accessMode = "readWrite" -> {"GENERIC_READ", "GENERIC_WRITE"}

\* switch(createMode): creationDisposition
creationDispositionOf(createMode) ==
    CASE createMode = "createAlways" -> "CREATE_ALWAYS"
      [] createMode = "createNew" -> "CREATE_NEW"
      [] createMode = "openAlways" -> "OPEN_ALWAYS"
      [] createMode = "openExisting" -> "OPEN_EXISTING"
      [] createMode = "truncateExisting" -> "TRUNCATE_EXISTING"

\* Platform::openFile(pathName, accessMode, createMode): transcodes says
\* whether transcodeUTF8ToUTF16 consumed the whole path, handle is what
\* CreateFileW returns.
OpenFile(accessMode, createMode, transcodes, handle) ==
    /\ Cardinality(osHandles) < MaxOpenFiles
    /\ handle \in (FileHandles \ osHandles) \cup {INVALID_HANDLE_VALUE}
    /\ LET result == IF ~transcodes THEN nullptr
                     ELSE fileHandleToPointer(handle)
           opened == transcodes /\ handle # INVALID_HANDLE_VALUE
       IN  /\ fileCall' = [fn |-> "openFile",
                           desiredAccess |-> desiredAccessOf(accessMode),
                           creationDisposition |->
                               creationDispositionOf(createMode),
                           transcodes |-> transcodes,
                           handle |-> IF transcodes THEN <<handle>> ELSE <<>>,
                           result |-> result]
           /\ osHandles' = IF opened THEN osHandles \cup {handle}
                           ELSE osHandles
           /\ files' = IF opened THEN files \cup {result} ELSE files

\* Platform::closeFile(file): CloseHandle(filePointerToHandle(file)) != 0;
\* CloseHandle succeeds for a handle that is open.
CloseFile(file) ==
    /\ file \in files \cup {nullptr}
    /\ LET handle == filePointerToHandle(file)
       IN  /\ fileCall' = [fn |-> "closeFile", file |-> file,
                           handle |-> <<handle>>,
                           result |-> handle \in osHandles]
           /\ osHandles' = osHandles \ {handle}
           /\ files' = files \ {file}

FilesIdle == osHandles = {} /\ files = {} /\ fileCall = NoFileCall

FilesNext ==
    \/ \E accessMode \in FileAccessModes, createMode \in FileCreateModes,
          transcodes \in BOOLEAN, handle \in Handles :
           OpenFile(accessMode, createMode, transcodes, handle)
               /\ UNCHANGED exceptFiles
    \/ \E file \in Handles : CloseFile(file) /\ UNCHANGED exceptFiles

InitTypes == TypesInit /\ InternInit /\ SEHIdle /\ VMIdle /\ LinkIdle
    /\ ReportingIdle /\ HandlerInit /\ ThreadsIdle /\ TimerIdle
        /\ GroupsIdle
        /\ LifeIdle
        /\ EventIdle
        /\ FilesIdle

InitTuples == TypesIdle /\ InternInit /\ SEHIdle /\ VMIdle /\ LinkIdle
    /\ ReportingIdle /\ HandlerInit /\ ThreadsIdle /\ TimerIdle
        /\ GroupsIdle
        /\ LifeIdle
        /\ EventIdle
        /\ FilesIdle

InitFunctions == TypesIdle /\ FunctionsInit /\ SEHIdle /\ VMIdle /\ LinkIdle
    /\ ReportingIdle /\ HandlerInit /\ ThreadsIdle /\ TimerIdle
        /\ GroupsIdle
        /\ LifeIdle
        /\ EventIdle
        /\ FilesIdle

InitSEH == TypesIdle /\ InternInit /\ SEHInit /\ VMIdle /\ LinkIdle
    /\ ReportingIdle /\ HandlerInit /\ ThreadsIdle /\ TimerIdle
        /\ GroupsIdle
        /\ LifeIdle
        /\ EventIdle
        /\ FilesIdle

InitVM == TypesIdle /\ InternInit /\ SEHIdle /\ VMInit /\ LinkIdle
    /\ ReportingIdle /\ HandlerInit /\ ThreadsIdle /\ TimerIdle
        /\ GroupsIdle
        /\ LifeIdle
        /\ EventIdle
        /\ FilesIdle

InitVMOps == TypesIdle /\ InternInit /\ SEHIdle /\ VMIdle /\ LinkIdle
    /\ ReportingIdle /\ HandlerInit /\ ThreadsIdle /\ TimerIdle
        /\ GroupsIdle
        /\ LifeIdle
        /\ EventIdle
        /\ FilesIdle

InitLink == TypesIdle /\ InternInit /\ SEHIdle /\ VMIdle /\ LinkInit
    /\ ReportingIdle /\ HandlerInit /\ ThreadsIdle /\ TimerIdle
        /\ GroupsIdle
        /\ LifeIdle
        /\ EventIdle
        /\ FilesIdle

SpecTypes == InitTypes /\ [][TypesNext]_vars

SpecTuples == InitTuples /\ [][TuplesNext]_vars

SpecFunctions == InitFunctions /\ [][FunctionsNext]_vars

SpecSEH == InitSEH /\ [][SEHNext]_vars

SpecVM == InitVM /\ [][VMNext]_vars

SpecVMOps == InitVMOps /\ [][VMOpsNext]_vars

SpecLink == InitLink /\ [][LinkNext]_vars

InitReporting ==
    TypesIdle /\ InternInit /\ SEHInit /\ VMIdle /\ LinkIdle /\ ReportingIdle
        /\ HandlerInit /\ ThreadsIdle /\ TimerIdle
        /\ GroupsIdle
        /\ LifeIdle
        /\ EventIdle
        /\ FilesIdle

SpecReporting == InitReporting /\ [][ReportingNext]_vars

SpecSEHReentrant == InitSEH /\ [][SEHReentrantNext]_vars

InitHandler ==
    TypesIdle /\ InternInit /\ SEHIdle /\ VMIdle /\ LinkIdle /\ ReportingIdle
        /\ HandlerInit /\ ThreadsIdle /\ TimerIdle
        /\ GroupsIdle
        /\ LifeIdle
        /\ EventIdle
        /\ FilesIdle

SpecHandler == InitHandler /\ [][HandlerNext]_vars

InitThreads ==
    TypesIdle /\ InternInit /\ SEHIdle /\ VMIdle /\ LinkIdle /\ ReportingIdle
        /\ HandlerInit /\ ThreadsInit /\ TimerIdle
        /\ GroupsIdle
        /\ LifeIdle
        /\ EventIdle
        /\ FilesIdle

SpecThreads == InitThreads /\ [][ThreadsNext]_vars

InitTimer ==
    TypesIdle /\ InternInit /\ SEHIdle /\ VMIdle /\ LinkIdle /\ ReportingIdle
        /\ HandlerInit /\ ThreadsIdle /\ TimerInit
        /\ GroupsIdle
        /\ LifeIdle
        /\ EventIdle
        /\ FilesIdle

SpecTimer == InitTimer /\ [][TimerNext]_vars

InitGroups ==
    TypesIdle /\ InternInit /\ SEHIdle /\ VMIdle /\ LinkIdle /\ ReportingIdle
        /\ HandlerInit /\ ThreadsIdle /\ TimerIdle
        /\ GroupsIdle
        /\ LifeIdle
        /\ EventIdle
        /\ FilesIdle

SpecGroups == InitGroups /\ [][GroupsNext]_vars

InitLife ==
    TypesIdle /\ InternInit /\ SEHIdle /\ VMIdle /\ LinkIdle /\ ReportingIdle
        /\ HandlerInit /\ ThreadsIdle /\ TimerIdle
        /\ GroupsIdle
        /\ LifeIdle
        /\ EventIdle
        /\ FilesIdle

SpecLife == InitLife /\ [][LifeNext]_vars

InitEvent ==
    TypesIdle /\ InternInit /\ SEHIdle /\ VMIdle /\ LinkIdle /\ ReportingIdle
        /\ HandlerInit /\ ThreadsIdle /\ TimerIdle
        /\ GroupsIdle
        /\ LifeIdle
        /\ EventIdle
        /\ FilesIdle

SpecEvent == InitEvent /\ [][EventNext]_vars

InitFiles ==
    TypesIdle /\ InternInit /\ SEHIdle /\ VMIdle /\ LinkIdle /\ ReportingIdle
        /\ HandlerInit /\ ThreadsIdle /\ TimerIdle
        /\ GroupsIdle
        /\ LifeIdle
        /\ EventIdle
        /\ FilesIdle

SpecFiles == InitFiles /\ [][FilesNext]_vars

\* Time passes, and a wait whose timeout has passed returns.
SpecEventFair ==
    SpecEvent /\ WF_vars(ClockTick /\ UNCHANGED exceptEvent)
              /\ WF_vars(EventWaitTimeout /\ UNCHANGED exceptEvent)

\* The calling thread keeps running: each of its steps is taken if it stays
\* possible.
AllocationStep ==
    /\ AllocateUnaligned \/ Probe \/ FreeProbe \/ ReReserve
    /\ UNCHANGED exceptVM

SpecVMFair == SpecVM /\ WF_vars(AllocationStep)

(***************************************************************************)
(* C1: for all value types a and b, meet(a, b) is a subtype of a (and, by  *)
(* the symmetric call, of b).                                              *)
(***************************************************************************)
C1_MeetIsLowerBound ==
    Returned(vtMeet) =>
        isSubtype(ValueOf(vtMeet), vtA) /\ isSubtype(ValueOf(vtMeet), vtB)

(***************************************************************************)
(* C2: for all value types a and b, both a and b are subtypes of           *)
(* join(a, b).                                                             *)
(***************************************************************************)
C2_JoinIsUpperBound ==
    Returned(vtJoin) =>
        isSubtype(vtA, ValueOf(vtJoin)) /\ isSubtype(vtB, ValueOf(vtJoin))

C2_Witness ==
    /\ vtA = "anyfunc"
    /\ vtB = "nullref"
    /\ vtJoin = <<"anyfunc">>

(***************************************************************************)
(* C3: join(a, b) is the least upper bound: every c that is a supertype of *)
(* both a and b is a supertype of join(a, b).                              *)
(***************************************************************************)
C3_JoinIsLeast ==
    (Returned(vtJoin) /\ vtSubAC = <<TRUE>> /\ vtSubBC = <<TRUE>>)
        => isSubtype(ValueOf(vtJoin), vtC)

C3_Witness ==
    /\ vtA = "nullref"
    /\ vtB = "anyfunc"
    /\ vtC = "anyref"
    /\ vtSubAC = <<TRUE>>
    /\ vtSubBC = <<TRUE>>
    /\ vtJoin = <<"anyfunc">>

(***************************************************************************)
(* C4: isSubtype is exactly the relation: every type is a subtype of       *)
(* itself and of any; anyfunc and nullref are subtypes of anyref; nullref  *)
(* is a subtype of anyfunc; nothing else.  The relation is reflexive,      *)
(* transitive and antisymmetric.                                           *)
(***************************************************************************)
StatedSubtypePairs ==
    {<<t, t>> : t \in ValueType}
        \cup {<<t, "any">> : t \in ValueType}
        \cup {<<"anyfunc", "anyref">>, <<"nullref", "anyref">>,
              <<"nullref", "anyfunc">>}

C4_SubtypeRelation ==
    \* exactly the stated pairs
    /\ Returned(vtSubAB) =>
           (ValueOf(vtSubAB) <=> <<vtA, vtB>> \in StatedSubtypePairs)
    \* reflexive
    /\ (Returned(vtSubAB) /\ vtA = vtB) => vtSubAB = <<TRUE>>
    \* transitive
    /\ (vtSubAB = <<TRUE>> /\ vtSubBC = <<TRUE>> /\ Returned(vtSubAC))
           => vtSubAC = <<TRUE>>
    \* antisymmetric (vtC plays the part of a in the converse call)
    /\ (vtSubAB = <<TRUE>> /\ vtSubBC = <<TRUE>> /\ vtC = vtA) => vtA = vtB

C4_Witness ==
    /\ vtA = "nullref"
    /\ vtB = "anyfunc"
    /\ vtC = "anyref"
    /\ vtSubAB = <<TRUE>>
    /\ vtSubBC = <<TRUE>>
    /\ vtSubAC = <<TRUE>>

(***************************************************************************)
(* C5: two TypeTuple values compare equal (their impl pointers are the     *)
(* same) exactly when they have the same length and the same element at    *)
(* every index; a tuple constructed from the elements of an existing tuple *)
(* is that tuple's representative.                                         *)
(***************************************************************************)
SameElements(s, t) ==
    /\ tupleSize(s) = tupleSize(t)
    /\ \A index \in 1..tupleSize(s) : tupleElem(s, index) = tupleElem(t, index)

C5_TupleInterning ==
    /\ \A i, j \in DOMAIN tuples :
           TypeTupleEq(tuples[i].type, tuples[j].type)
               <=> SameElements(tuples[i].type, tuples[j].type)
    /\ \A i \in DOMAIN tuples :
           tuples[i].from # 0 =>
               TypeTupleEq(tuples[i].type, tuples[tuples[i].from].type)

C5_Witness ==
    /\ Len(tuples) = 3
    /\ tupleData(tuples[1].type) = <<"i32", "anyref">>
    /\ tupleData(tuples[2].type) = <<"anyref", "i32">>
    /\ tuples[3].from = 1
    /\ TypeTupleEq(tuples[3].type, tuples[1].type)
    /\ ~TypeTupleEq(tuples[2].type, tuples[1].type)

(***************************************************************************)
(* C6: for every function type f, FunctionType(f.getEncoding()) == f, with *)
(* the same results() and params(); two function types have equal          *)
(* encodings exactly when their results tuples are equal and their params  *)
(* tuples are equal.                                                       *)
(***************************************************************************)
C6_EncodingRoundTrip ==
    /\ \A i \in DOMAIN functions :
           functions[i].decoded # <<>> =>
               /\ FunctionTypeEq(functions[i].decoded[1], functions[i].type)
               /\ TypeTupleEq(results(functions[i].decoded[1]),
                              results(functions[i].type))
               /\ TypeTupleEq(params(functions[i].decoded[1]),
                              params(functions[i].type))
    /\ \A i, j \in DOMAIN functions :
           (functions[i].encoding # <<>> /\ functions[j].encoding # <<>>) =>
               ((functions[i].encoding[1].impl = functions[j].encoding[1].impl)
                    <=> (/\ TypeTupleEq(results(functions[i].type),
                                        results(functions[j].type))
                         /\ TypeTupleEq(params(functions[i].type),
                                        params(functions[j].type))))

C6_Witness ==
    /\ Len(functions) = 3
    /\ \A i \in 1..3 : functions[i].decoded # <<>>
    /\ FunctionTypeEq(functions[1].type, functions[2].type)
    /\ ~FunctionTypeEq(functions[1].type, functions[3].type)
    /\ TypeTupleEq(results(functions[1].type), results(functions[3].type))

(***************************************************************************)
(* Claims about catchSignals and catchPlatformExceptions.                  *)
(***************************************************************************)
SignalCodes ==
    {"EXCEPTION_ACCESS_VIOLATION", "EXCEPTION_STACK_OVERFLOW",
     "STATUS_INTEGER_DIVIDE_BY_ZERO", "STATUS_INTEGER_OVERFLOW"}

\* The signal the claim expects for an exception: its kind and, for an
\* access violation, the faulting address (ExceptionInformation[1]).
StatedSignal(e) ==
    CASE e.code = "EXCEPTION_ACCESS_VIOLATION" ->
             [type |-> "accessViolation", address |-> e.information[2]]
      [] e.code = "EXCEPTION_STACK_OVERFLOW" -> [type |-> "stackOverflow"]
      [] OTHER -> [type |-> "intDivideByZeroOrOverflow"]

\* catchSignals returned false because its thunk completed.
C7_ThunkCompleted ==
    (outcome.fn = "catchSignals" /\ outcome.by = "thunk") =>
        /\ outcome.how = "returned"
        /\ outcome.result = FALSE
        /\ outcome.filterCalls = 0

\* The filter was invoked once, with the translated signal and the call
\* stack of the exception, for each of the four codes.
C7_FilterInvocation ==
    /\ (outcome.fn = "catchSignals" /\ outcome.by = "except") =>
           /\ outcome.exception.code \in SignalCodes
           /\ outcome.filterCalls = 1
           /\ outcome.signal = StatedSignal(outcome.exception)
           /\ outcome.callStack = unwindStack(outcome.exception.context, 0)
    /\ \A k \in DOMAIN stack :
           (stack[k].kind = "catchSignals" /\ stack[k].filter # <<>>) =>
               IF exception.code \in SignalCodes
               THEN /\ stack[k].filter[1].filterCalls = 1
                    /\ stack[k].filter[1].signal = StatedSignal(exception)
                    /\ stack[k].filter[1].callStack
                           = unwindStack(exception.context, 0)
               ELSE stack[k].filter[1].filterCalls = 0

\* A filter that returned false, or an exception of another code: the
\* frame does not handle the exception, which goes on to the enclosing
\* handlers in order.
C7_Propagation ==
    /\ \A k \in DOMAIN stack :
           (stack[k].kind = "catchSignals" /\ stack[k].filter # <<>>) =>
               /\ stack[k].filter[1].disposition = "EXCEPTION_CONTINUE_SEARCH"
               /\ stack[k].filter[1].filterCalls = 1
                      => stack[k].filter[1].verdict = FALSE
               /\ exception # NoException
               /\ exception.search < k
    /\ exception # NoException =>
           /\ exception.search = NearestGuard(stack, exception.search)
           /\ \A k \in DOMAIN stack :
                  (IsGuard(stack[k]) /\ k > exception.search)
                      <=> stack[k].filter # <<>>

(***************************************************************************)
(* C7 as stated: catchSignals returns false when the thunk completes; on   *)
(* an access violation, stack overflow, integer divide-by-zero or integer  *)
(* overflow the filter is invoked once with the translated signal and call *)
(* stack, and catchSignals returns true exactly when the filter returns    *)
(* true; otherwise the exception propagates to the enclosing handler.      *)
(***************************************************************************)
C7_AsStated ==
    /\ C7_ThunkCompleted
    /\ C7_FilterInvocation
    /\ C7_Propagation
    /\ (outcome.fn = "catchSignals" /\ outcome.by = "except") =>
           ((outcome.how = "returned" /\ outcome.result = TRUE)
                <=> outcome.verdict = TRUE)

(***************************************************************************)
(* C7, amended: as stated, except that catchSignals returns true exactly   *)
(* when the filter returns true and _resetstkoflw succeeds; when the       *)
(* filter returns true and _resetstkoflw fails, the process is terminated  *)
(* by errorUnless and catchSignals does not return.                        *)
(***************************************************************************)
C7_CatchSignals ==
    /\ C7_ThunkCompleted
    /\ C7_FilterInvocation
    /\ C7_Propagation
    /\ (outcome.fn = "catchSignals" /\ outcome.by = "except") =>
           /\ outcome.verdict = TRUE
           /\ (outcome.how = "returned" /\ outcome.result = TRUE)
                  <=> outcome.resetstkoflw
           /\ ~outcome.resetstkoflw =>
                  /\ outcome.how = "fatal"
                  /\ process = "fatal: errorUnless(_resetstkoflw())"

\* An access violation two frames above a catchSignals whose filter took it,
\* inside an outer catchSignals.
C7_Witness ==
    /\ outcome.fn = "catchSignals"
    /\ outcome.by = "except"
    /\ outcome.how = "returned"
    /\ outcome.signal = [type |-> "accessViolation", address |-> 2]
    /\ Len(outcome.exception.context) = 3
    /\ Len(stack) = 1

(***************************************************************************)
(* C8: catchPlatformExceptions returns false when the thunk completes      *)
(* normally; when the thunk calls raisePlatformException(data) the handler *)
(* is invoked exactly once with that data pointer and the captured call    *)
(* stack, and catchPlatformExceptions then returns true;                   *)
(* raisePlatformException never returns to its caller.                     *)
(***************************************************************************)
C8_CatchPlatformExceptions ==
    /\ (outcome.fn = "catchPlatformExceptions" /\ outcome.by = "thunk") =>
           /\ outcome.how = "returned"
           /\ outcome.result = FALSE
           /\ outcome.handlerCalls = 0
    /\ (outcome.fn = "catchPlatformExceptions" /\ outcome.by = "except") =>
           /\ outcome.exception.code = "SEH_WAVM_EXCEPTION"
           /\ outcome.handlerCalls = 1
           /\ outcome.handlerData = outcome.exception.information[1]
           /\ outcome.handlerCallStack
                  = unwindStack(outcome.exception.context, 0)
           /\ outcome.how = "returned"
           /\ outcome.result = TRUE
           \* the frames of the thunk, the raising one included, are gone
           /\ Len(stack) < Len(outcome.exception.context)
    \* the innermost catchPlatformExceptions around the raise takes it
    /\ exception.code = "SEH_WAVM_EXCEPTION" =>
           \A k \in DOMAIN stack :
               k > exception.search
                   => stack[k].kind # "catchPlatformExceptions"
    \* no disposition resumes the code that raised
    /\ outcome.fn # "resumed"

\* raisePlatformException(1) one frame above a catchPlatformExceptions
\* that the thread's first function called.
C8_Witness ==
    /\ outcome.fn = "catchPlatformExceptions"
    /\ outcome.by = "except"
    /\ outcome.handlerData = 1
    /\ Len(outcome.handlerCallStack) = 3
    /\ Len(stack) = 1

(***************************************************************************)
(* C9 as stated: the CallStack built for a signal or platform exception    *)
(* lists the instruction pointers from the oldest frame (index 0) to the   *)
(* youngest frame (last index).                                            *)
(***************************************************************************)
OldestFirst(callStack, context) ==
    /\ Len(callStack) = Len(context)
    /\ \A i \in DOMAIN callStack : callStack[i].ip = context[i]

YoungestFirst(callStack, context) ==
    /\ Len(callStack) = Len(context)
    /\ \A i \in DOMAIN callStack :
           callStack[i].ip = context[Len(context) + 1 - i]

\* Every call stack the two filters have built, with its exception context.
CallStacksBuilt ==
    (IF outcome.fn = "catchSignals" /\ outcome.by = "except"
     THEN {<<outcome.callStack, outcome.exception.context>>} ELSE {})
    \cup
    (IF outcome.fn = "catchPlatformExceptions" /\ outcome.by = "except"
     THEN {<<outcome.handlerCallStack, outcome.exception.context>>} ELSE {})
    \cup
    {<<stack[k].filter[1].callStack, exception.context>> :
        k \in {j \in DOMAIN stack :
                  /\ stack[j].kind = "catchSignals"
                  /\ stack[j].filter # <<>>
                  /\ stack[j].filter[1].filterCalls = 1}}

C9_AsStated ==
    \A c \in CallStacksBuilt : OldestFirst(c[1], c[2])

(***************************************************************************)
(* C9, amended: the CallStack built for a signal or platform exception     *)
(* lists the instruction pointers from the youngest frame, the one that    *)
(* raised the exception (index 0), to the oldest frame (last index).       *)
(***************************************************************************)
C9_CallStackOrder ==
    \A c \in CallStacksBuilt : YoungestFirst(c[1], c[2])

C9_Witness ==
    /\ outcome.fn = "catchSignals"
    /\ outcome.by = "except"
    /\ outcome.exception.context = <<1, 1, 2>>
    /\ outcome.callStack = <<[ip |-> 2], [ip |-> 1], [ip |-> 1]>>

(***************************************************************************)
(* C10: whenever allocateAlignedVirtualPages returns a non-null address,   *)
(* the address is a multiple of 2^alignmentLog2 and the range [address,    *)
(* address + numPages * pageSize) lies inside the reservation that starts  *)
(* at outUnalignedBaseAddress: on the re-reserve path, on the padded       *)
(* fallback path, and when alignmentLog2 <= pageSizeLog2.                  *)
(***************************************************************************)
C10_AlignedInsideReservation ==
    (alloc.pc = "done" /\ alloc.result # nullptr /\ vmCall = NoCall) =>
        /\ alloc.result % Pow2(alloc.alignmentLog2) = 0
        /\ \E r \in reservations :
               /\ r.owner = "self"
               /\ r.base = alloc.outUnalignedBaseAddress
               /\ r.base <= alloc.result
               /\ alloc.result + alloc.numPages * PageSize
                      <= r.base + r.size

\* The reservation the call handed to its caller.
HandedOut ==
    {r \in reservations :
         r.owner = "self" /\ r.base = alloc.outUnalignedBaseAddress}

(***************************************************************************)
(* C11: when alignmentLog2 > pageSizeLog2, allocateAlignedVirtualPages     *)
(* makes at most 10 free-then-re-reserve attempts; if all of them lose the *)
(* race it returns the next padded reservation, unreleased, with the       *)
(* aligned pointer inside it; and it returns null only when a padded probe *)
(* reservation itself fails.                                               *)
(***************************************************************************)
C11_RetryThenPadded ==
    (alloc.alignmentLog2 > getPageSizeLog2) =>
        /\ alloc.numTries <= 10
        /\ (alloc.pc = "done" /\ alloc.result = nullptr)
               => alloc.path = "probe failed"
        /\ (alloc.pc = "done" /\ alloc.numTries = 10 /\ vmCall = NoCall
               /\ alloc.path # "probe failed") =>
               /\ alloc.path = "padded"
               /\ alloc.outUnalignedBaseAddress = alloc.probeResult
               /\ \E r \in HandedOut :
                      r.base <= alloc.result
                          /\ alloc.result < r.base + r.size

\* C11, termination: the call comes to an end (it returns, or errorUnless
\* ends the process).
C11_Terminates == <>(alloc.pc \in {"done", "fatal"})

(***************************************************************************)
(* C12: after a successful allocateAlignedVirtualPages followed by         *)
(* freeAlignedVirtualPages on the returned unaligned base, no address      *)
(* reserved by that allocation call remains reserved: every probe          *)
(* reservation of a failed retry has been released and the final           *)
(* reservation, padding included, is released in full.                     *)
(***************************************************************************)
C12_NothingLeftReserved ==
    (alloc.pc = "done" /\ alloc.result # nullptr /\ vmCall # NoCall) =>
        /\ vmCall.fn = "freeAlignedVirtualPages"
        /\ vmCall.outcome = "returned"
        /\ ~vmCall.refused
        /\ \A r \in reservations : r.owner # "self"

C12_Witness ==
    /\ alloc.pc = "done"
    /\ alloc.path = "padded"
    /\ vmCall # NoCall
    /\ vmCall.outcome = "returned"

PageOperations ==
    {"commitVirtualPages", "setVirtualPageAccess", "decommitVirtualPages",
     "freeVirtualPages", "freeAlignedVirtualPages"}

(***************************************************************************)
(* C13: when the system refuses a reservation or a commit,                 *)
(* allocateVirtualPages returns null and commitVirtualPages and            *)
(* setVirtualPageAccess return false, without ending the process; when the *)
(* system rejects a decommit or a release, or when commit, setAccess,      *)
(* decommit, free or freeAligned is given a base address that is not       *)
(* page-aligned, the process is terminated as a fatal error.               *)
(***************************************************************************)
C13_FailurePolicy ==
    vmCall # NoCall =>
        /\ (vmCall.fn = "allocateVirtualPages" /\ vmCall.refused) =>
               vmCall.outcome = "returned" /\ vmCall.result = <<nullptr>>
        /\ (vmCall.fn \in {"commitVirtualPages", "setVirtualPageAccess"}
               /\ vmCall.refused) =>
               vmCall.outcome = "returned" /\ vmCall.result = <<FALSE>>
        /\ (vmCall.fn \in {"decommitVirtualPages", "freeVirtualPages",
                           "freeAlignedVirtualPages"}
               /\ vmCall.refused) =>
               vmCall.outcome = "fatal"
        /\ (vmCall.fn \in PageOperations /\ ~isPageAligned(vmCall.base)) =>
               vmCall.outcome = "fatal"

C15_FatalDumpsStackTrace ==
    outcome.fn = "handleFatalError" =>
        /\ \E i \in DOMAIN stderr :
               /\ stderr[i] = Line("Call stack:", 0)
               /\ \E j \in DOMAIN stderr : j < i /\ stderr[j].text \in Messages
        /\ exitCode # <<>>
        /\ exitCode[1] # 0
        /\ process # "running"

(***************************************************************************)
(* C20: captureCallStack(n) returns the frames of the calling thread with  *)
(* captureCallStack's own frame and the n youngest frames above it         *)
(* removed; when the stack has n + 1 frames or fewer the result is empty,  *)
(* and the omission counter never underflows.                              *)
(***************************************************************************)
C20_CaptureOmitsFrames ==
    outcome.fn = "captureCallStack" =>
        LET n == outcome.numOmittedFramesFromTop
            context == outcome.context
            kept == IF Len(context) > n THEN Len(context) - n ELSE 0
        IN  /\ Len(outcome.callStack) = kept
            /\ \A i \in 1..kept :
                   outcome.callStack[i].ip = context[kept + 1 - i]
            /\ (Len(context) + 1 <= n + 1) => outcome.callStack = <<>>

\* The filter is registered once as soon as a call has passed the static.
RegisteredOnce ==
    /\ registeredFilters <= 1
    /\ (\E t \in Threads : handlerCalls[t].pc \in {"store", "return"})
           => registeredFilters = 1
    /\ handlerLog.stores # <<>> => registeredFilters = 1

(***************************************************************************)
(* C16, as stated: across any number and interleaving of setSignalHandler  *)
(* calls from any threads, the unhandled-exception filter is registered    *)
(* exactly once, and the handler invoked for a later unhandled signal is   *)
(* the one stored by the most recent completed setSignalHandler call.      *)
(***************************************************************************)
C16_AsStated ==
    /\ RegisteredOnce
    /\ handlerLog.delivered # NoDelivery =>
           /\ handlerLog.completed # <<>>
           /\ handlerLog.delivered.handler
                  = handlerLog.completed[Len(handlerLog.completed)]

(***************************************************************************)
(* C16, amended: the filter is registered exactly once, and the handler    *)
(* invoked for an unhandled signal is the one of the setSignalHandler call *)
(* whose store to signalHandler was the last before the signal, whether or *)
(* not that call has returned and whichever call returned last; before any *)
(* store the handler is still null.                                        *)
(***************************************************************************)
C16_LastStoreWins ==
    /\ RegisteredOnce
    /\ handlerLog.delivered # NoDelivery =>
           handlerLog.delivered.handler =
               IF handlerLog.stores = <<>> THEN nullHandler
               ELSE handlerLog.stores[Len(handlerLog.stores)]

\* Two overlapping calls: the one that stored first returned last, and the
\* signal went to the handler of the other.
C16_Witness ==
    /\ handlerLog.stores = <<"handlerA", "handlerB">>
    /\ handlerLog.completed = <<"handlerB", "handlerA">>
    /\ handlerLog.delivered = [handler |-> "handlerB"]
    /\ registeredFilters = 1

(***************************************************************************)
(* C17: if a second fault is raised while the signal filter is running     *)
(* (while translating the signal, unwinding the call stack, or inside the  *)
(* user filter), the process is terminated with a fatal "reentrant         *)
(* exception" error; the nested fault is never delivered to the filter     *)
(* again and never propagates out of catchSignals.                         *)
(***************************************************************************)
C17_ReentrantFaultIsFatal ==
    outcome.fn \in {"sehSignalFilterFunction", "unhandledExceptionFilter"} =>
        /\ process = "fatal: reentrant exception"
        /\ outcome.takenBy = outcome.fn
        /\ exception = outcome.first
        /\ ~ENABLED SEHReentrantNext

C17_Witness ==
    /\ outcome.fn = "sehSignalFilterFunction"
    /\ outcome.stage = "filter"
    /\ outcome.first.code = "EXCEPTION_STACK_OVERFLOW"
    /\ outcome.nested = "EXCEPTION_ACCESS_VIOLATION"
    /\ Len(stack) = 3

\* The thread has been through one of the three places that call initThread.
PassedInitThread(t) ==
    /\ threads[t].status = "running"
    /\ t = "main" => threads[t].catchSignalsCalls > 0

(***************************************************************************)
(* C18: per thread, the stack-overflow guard band (32768 bytes) is         *)
(* reserved exactly once: on the first of catchSignals, thread entry via   *)
(* createThread, or resumption in a forked thread, and never again on      *)
(* later calls to catchSignals on that thread; one thread's initialization *)
(* does not mark any other thread as initialized.  A thread that has       *)
(* passed one of the three places has made the request once and, the       *)
(* system having granted it, holds the 32768 bytes; a thread that has not  *)
(* is not initialized, whatever the other threads did.                     *)
(***************************************************************************)
C18_GuardBandReservedOnce ==
    \A t \in ThreadIds :
        IF PassedInitThread(t)
        THEN /\ threads[t].isThreadInitialized
             /\ threads[t].guaranteeCalls = 1
             /\ threads[t].granted => threads[t].stackGuarantee = 32768
        ELSE /\ ~threads[t].isThreadInitialized
             /\ threads[t].guaranteeCalls = 0
             /\ threads[t].stackGuarantee = 0

\* Every thread runs, each came by a different way, catchSignals was called
\* again on threads already initialized, and one thread still is not.
C18_Witness ==
    /\ threads["main"].catchSignalsCalls = 0
    /\ \E c \in ThreadIds, f \in ThreadIds :
           /\ c # f
           /\ threads[c].status = "running" /\ threads[f].status = "running"
           /\ threads[c].catchSignalsCalls = MaxCatchSignalsCalls
           /\ threads[f].catchSignalsCalls = MaxCatchSignalsCalls
           /\ threads[c].granted /\ threads[f].granted
           /\ threads[c].stackGuarantee = 32768
           /\ threads[f].stackGuarantee = 32768

(***************************************************************************)
(* C19: a Core::Timer stops when read: after the first call to             *)
(* getMicroseconds (or after an explicit stop()), every later call to      *)
(* getMicroseconds / getMilliseconds / getSeconds returns the same elapsed *)
(* time, regardless of how much time passes between reads.  Here: a read   *)
(* returns the elapsed time of the read before it, and after a stop() all  *)
(* reads agree.                                                            *)
(***************************************************************************)
C19_StopsWhenRead ==
    \A i \in DOMAIN timerLog, j \in DOMAIN timerLog :
        (/\ i < j
         /\ timerLog[j].fn # "stop"
         /\ \A k \in (i + 1)..j : timerLog[k].fn # "stop"
         /\ i + 1 < j \/ timerLog[i].fn # "stop")
        => LET first == IF timerLog[i].fn = "stop" THEN i + 1 ELSE i
           IN  timerLog[j].microseconds = timerLog[first].microseconds

(***************************************************************************)
(* C21: threads created by createThread are assigned to processor groups   *)
(* round-robin: with G active processor groups, the k-th createThread call *)
(* (k = 0, 1, 2, ... in the order their counter increments take effect,    *)
(* for any interleaving of concurrent callers and for any number of calls  *)
(* including beyond 65535) is assigned group k mod G.                      *)
(***************************************************************************)
C21_RoundRobin ==
    \A c \in Creators :
        creators[c].pc = "assigned"
            => creators[c].group = creators[c].index % processorGroupInfos[1]

C23_ThreadLifetime ==
    /\ lifeErrors = {}
    /\ threadObject.frees <= 1 /\ threadObject.closes <= 1
    /\ (threadObject.state = "freed")
           <=> (threadObject.numRefs = 0 /\ threadObject.state # "none")
    /\ (threadOwner.pc = "done" /\ createdThread.pc = "finished")
           => threadObject.frees = 1 /\ threadObject.closes = 1

(***************************************************************************)
(* C24: joinThread(t) returns only after the thread has finished, and      *)
(* returns the value the thread's entry function returned, or the code     *)
(* passed to exitThread if the thread called exitThread at any call depth; *)
(* it never returns the initial placeholder result -1 unless that was the  *)
(* entry's own return value or exit code.                                  *)
(***************************************************************************)
C24_JoinReturnsResult ==
    /\ threadOwner.pc = "waited" => createdThread.pc = "finished"
    /\ (threadOwner.pc = "done" /\ threadOwner.how = "join")
           => /\ createdThread.pc = "finished"
              /\ threadOwner.joinResult = createdThread.value
              /\ ~threadOwner.joinReadPlaceholder

\* joinThread has returned the code of an exitThread called under catchSignals
\* and catchPlatformExceptions thunks.
C24_Witness ==
    /\ threadOwner.pc = "done" /\ threadOwner.how = "join"
    /\ createdThread.how = "exitThread"
    /\ createdThread.frames = <<"catchPlatformExceptions", "catchSignals">>
    /\ threadOwner.joinResult = <<5>>

(***************************************************************************)
(* C25: if the event is never signalled, Event::wait(untilTime) returns    *)
(* false only when the monotonic clock is >= untilTime, and the            *)
(* millisecond timeout it passes to the OS wait is never 2^32-1 (the       *)
(* INFINITE value), for any remaining time including a remaining time of   *)
(* exactly 2^32-1 milliseconds.                                            *)
(***************************************************************************)
C25_NeverInfinite ==
    /\ eventWait.pc = "waiting" => eventWait.timeout # INFINITE
    /\ eventWait.result = <<FALSE>>
           => eventWait.currentTime >= eventWait.untilTime

\* C25, the termination: a wait on an event that is never signalled
\* eventually returns false.
C25_EventuallyReturns ==
    (eventWait.pc = "waiting") ~> (eventWait.result = <<FALSE>>)

(***************************************************************************)
(* C26: whenever the unhandled-exception filter invokes the process-global *)
(* signal handler (for an untranslated WAVM exception or a translated      *)
(* signal, including exceptions escaping a thread started by createThread  *)
(* or forkCurrentThread), a handler has already been installed by          *)
(* setSignalHandler, i.e. the handler slot is never null at the point of   *)
(* the call.                                                               *)
(***************************************************************************)
C26_HandlerNeverNull ==
    handlerLog.delivered # NoDelivery
        => /\ handlerLog.delivered.handler # nullHandler
           /\ handlerLog.stores # <<>>

(***************************************************************************)
(* C27: catchSignals and catchPlatformExceptions do not intercept each     *)
(* other's events at any nesting depth: an exception raised by             *)
(* raisePlatformException inside a catchSignals thunk never invokes the    *)
(* signal filter and reaches the nearest enclosing                         *)
(* catchPlatformExceptions, and an access violation, stack overflow or     *)
(* integer trap inside a catchPlatformExceptions thunk never invokes the   *)
(* platform-exception handler and reaches the nearest enclosing            *)
(* catchSignals.                                                           *)
(***************************************************************************)
C27_NoCrossInterception ==
    /\ exception.code = "SEH_WAVM_EXCEPTION" =>
           \A k \in DOMAIN stack :
               k > exception.search =>
                   /\ stack[k].kind # "catchPlatformExceptions"
                   /\ stack[k].kind = "catchSignals" =>
                          /\ stack[k].filter # <<>>
                          /\ stack[k].filter[1].filterCalls = 0
                          /\ stack[k].filter[1].disposition
                                 = "EXCEPTION_CONTINUE_SEARCH"
    /\ exception.code \in SignalCodes =>
           \A k \in DOMAIN stack :
               k > exception.search =>
                   /\ stack[k].kind = "catchPlatformExceptions" =>
                          /\ stack[k].filter # <<>>
                          /\ stack[k].filter[1].disposition
                                 = "EXCEPTION_CONTINUE_SEARCH"
                          /\ stack[k].filter[1].outCallStack = <<>>
                   /\ stack[k].kind = "catchSignals" =>
                          /\ stack[k].filter # <<>>
                          /\ stack[k].filter[1].filterCalls = 1
    /\ (outcome.fn = "catchPlatformExceptions" /\ outcome.by = "except") =>
           /\ outcome.exception.code = "SEH_WAVM_EXCEPTION"
           /\ outcome.handlerCalls = 1
    /\ (outcome.fn = "catchSignals" /\ outcome.by = "except") =>
           /\ outcome.exception.code \in SignalCodes
           /\ outcome.filterCalls = 1

\* A platform exception raised in a catchSignals thunk inside a
\* catchPlatformExceptions thunk has passed the catchSignals frame and the
\* search has reached the catchPlatformExceptions frame.
C27_Witness ==
    /\ exception.code = "SEH_WAVM_EXCEPTION"
    /\ Len(stack) = 3
    /\ stack[2].kind = "catchPlatformExceptions"
    /\ stack[3].kind = "catchSignals"
    /\ stack[3].filter # <<>>
    /\ exception.search = 2

(***************************************************************************)
(* C28: the File* encoding of OS handles is a bijection that maps the      *)
(* invalid handle to null: filePointerToHandle(fileHandleToPointer(h)) = h *)
(* for every handle h, fileHandleToPointer(INVALID_HANDLE_VALUE) is        *)
(* nullptr, and therefore openFile returns nullptr if and only if the path *)
(* could not be transcoded or the OS failed to open the file.              *)
(***************************************************************************)
C28_FileHandleEncoding ==
    /\ \A h \in Handles :
           /\ filePointerToHandle(fileHandleToPointer(h)) = h
           /\ fileHandleToPointer(filePointerToHandle(h)) = h
    /\ fileHandleToPointer(INVALID_HANDLE_VALUE) = nullptr
    /\ fileCall.fn = "openFile" =>
           (fileCall.result = nullptr
                <=> (~fileCall.transcodes
                        \/ fileCall.handle = <<INVALID_HANDLE_VALUE>>))
    /\ {filePointerToHandle(file) : file \in files} = osHandles
    /\ fileCall.fn = "closeFile" =>
           (fileCall.result <=> fileCall.file # nullptr)

\* CreateFileW failed for a path that transcodes, openFile returned nullptr,
\* and a file opened before is still open under the highest handle.
C28_Witness ==
    /\ fileCall.fn = "openFile"
    /\ fileCall.transcodes
    /\ fileCall.handle = <<INVALID_HANDLE_VALUE>>
    /\ fileCall.result = nullptr
    /\ fileHandleToPointer(UptrSize - 4) \in files

====
